---- MODULE Spec2Model ----
(***************************************************************************)
(* A model of the DDP gradient Reducer of                                  *)
(* torch/csrc/distributed/c10d/reducer.cpp: the readiness state machine    *)
(* (prepare_for_backward, autograd_hook, mark_variable_ready,              *)
(* mark_bucket_ready, finalize_backward), the gradient / bucket-view       *)
(* memory contract, the unused-parameter protocol and the bucket rebuild.  *)
(*                                                                         *)
(* Conventions.                                                            *)
(*  - Replica, variable and bucket indices are 0-based as in the C++;      *)
(*    TLA+ sequences are 1-based, so buckets_[i] of the code is            *)
(*    buckets_[i + 1] here.                                                *)
(*  - Every tensor of one parameter is modelled by one exact rational      *)
(*    number (all its elements are treated alike by the element-wise       *)
(*    operations the Reducer applies).                                     *)
(*  - A C++ exception is the field "error" of the state record: the        *)
(*    operators stop at the statement that throws and keep the writes      *)
(*    made before it.                                                      *)
(*  - backward_stats_ (profiling time stamps) is write-only telemetry and  *)
(*    is not part of the state.                                            *)
(***************************************************************************)
EXTENDS Integers, Sequences, FiniteSets, TLC

\* ------------------------------------------------------------------------
\* Bounds of the model.
\* ------------------------------------------------------------------------
\* Number of parameters of every replica (replicas_[0].size()).
NumVars == 2
\* Largest number of model replicas in this process (replicas_.size()).
MaxReplicas == 2
\* Replica backward passes: a successful prepare_for_backward starts one for
\* each replica.
MaxReplicaPasses == 3
\* Steps of one run that leave the plain training loop (prepare_forward,
\* prepare_for_backward, one hook per variable in the graph, the callback):
\* a hook firing again or for a variable outside the graph, a hook firing
\* outside a backward pass, zero_grad, a successful register_comm_hook.
MaxDetours == 1
\* process_group_->getSize().
WorldSize == 2

Vars == 0 .. (NumVars - 1)

\* ------------------------------------------------------------------------
\* Exact arithmetic on tensor values: the rational n / WorldSize^e, in
\* lowest terms; e = -1 is the content of memory that was never written
\* (at::empty), which every operation propagates.
\* ------------------------------------------------------------------------
Garbage == [n |-> 0, e |-> -1]

IsGarbage(x) == x.e < 0

RECURSIVE Pow(_, _)
Pow(b, k) == IF k = 0 THEN 1 ELSE b * Pow(b, k - 1)

RECURSIVE Norm(_)
Norm(x) ==
  IF x.e > 0 /\ x.n % WorldSize = 0
    THEN Norm([n |-> x.n \div WorldSize, e |-> x.e - 1])
    ELSE x

Val(k) == [n |-> k, e |-> 0]

Zero == Val(0)

Add(x, y) ==
  IF IsGarbage(x) \/ IsGarbage(y) THEN Garbage
  ELSE LET m == IF x.e > y.e THEN x.e ELSE y.e
       IN Norm([n |-> x.n * Pow(WorldSize, m - x.e) + y.n * Pow(WorldSize, m - y.e),
                e |-> m])

\* x / process_group_->getSize()  (div_ and the fused mul_out by 1/size).
DivW(x) == IF IsGarbage(x) THEN Garbage ELSE Norm([n |-> x.n, e |-> x.e + 1])

RECURSIVE SumInt(_)
SumInt(xs) == IF xs = <<>> THEN 0 ELSE Head(xs) + SumInt(Tail(xs))

RECURSIVE SumSeq(_)
SumSeq(xs) == IF xs = <<>> THEN Zero ELSE Add(Head(xs), SumSeq(Tail(xs)))

\* ------------------------------------------------------------------------
\* The environment: parameters, the autograd engine, the other ranks.
\* ------------------------------------------------------------------------
\* Gradient values AccumulateGrad leaves in a parameter's grad.
GradInputs(v) == {Val((2 * v + 1) * WorldSize * WorldSize)}

\* Number of elements of parameter v, and its size in bytes (float32).
numel(v) == (v + 1) * 131072

ParamBytes(v) == numel(v) * 4

\* The sum of the gradients of parameter v over all the other ranks.
PeerGradSum(v) == (WorldSize - 1) * (v + 1) * WorldSize

\* What the other ranks add to the slot of parameter v in an all-reduce of a
\* bucket: each of them ran mark_variable_ready_dense too (no hook), so each
\* contributes its gradient divided by the world size.
PeerContribution(v) == DivW(Val(PeerGradSum(v)))

\* The contiguous cuts of <<0, ..., NumVars-1>> into buckets: the
\* bucket_indices argument of the constructor.
RECURSIVE Cuts(_)
Cuts(xs) ==
  IF xs = <<>> THEN {<<>>}
  ELSE UNION {{<<SubSeq(xs, 1, k)>> \o rest : rest \in Cuts(SubSeq(xs, k + 1, Len(xs)))}
              : k \in 1 .. Len(xs)}

Layouts == Cuts([i \in 1 .. NumVars |-> i - 1])

\* The parameters of one replica after construction: float32 tensors on one
\* device, none expecting a sparse gradient (the constructor's default when
\* expect_sparse_gradients is not given).
DefaultParams == [i \in 1 .. NumVars |-> [dtype |-> "float32", device |-> "cpu", numel |-> numel(i - 1)]]

Min(a, b) == IF a < b THEN a ELSE b

RECURSIVE Flatten(_)
Flatten(ss) == IF ss = <<>> THEN <<>> ELSE Head(ss) \o Flatten(Tail(ss))

RECURSIVE MinOf(_)
MinOf(xs) == IF Len(xs) = 1 THEN xs[1] ELSE Min(xs[1], MinOf(Tail(xs)))

\* ------------------------------------------------------------------------
\* compute_bucket_assignment_by_size
\* ------------------------------------------------------------------------
BucketKey(tensor) == <<tensor.dtype, tensor.device>>

\* tensor.element_size() of a tensor of the given dtype.
element_size(dtype) ==
  CASE dtype = "float16" -> 2
    [] dtype = "float32" -> 4
    [] dtype = "float64" -> 8

\* The loop body with one size limit iterator for all the keys.
AssignStep_shared_iterator(st, tensor, tensor_index, bucket_size_limits, expect_sparse_gradient) ==
  IF expect_sparse_gradient # <<>> /\ expect_sparse_gradient[tensor_index + 1]
    THEN [st EXCEPT !.result = Append(@, <<tensor_index>>)]
    ELSE
      LET key == BucketKey(tensor)
          old == IF key \in DOMAIN st.buckets THEN st.buckets[key] ELSE [indices |-> <<>>, size |-> 0]
          acc == [indices |-> Append(old.indices, tensor_index),
                  size |-> old.size + tensor.numel * element_size(tensor.dtype)]
          it == IF DOMAIN st.iterators = {} THEN 1
                ELSE st.iterators[CHOOSE k \in DOMAIN st.iterators : TRUE]
          full == acc.size >= bucket_size_limits[it]
          next == IF it + 1 <= Len(bucket_size_limits) THEN it + 1 ELSE it
      IN [result |-> IF full THEN Append(st.result, acc.indices) ELSE st.result,
          buckets |-> [q \in DOMAIN st.buckets \cup {key} |->
                         IF q = key THEN (IF full THEN [indices |-> <<>>, size |-> 0] ELSE acc)
                         ELSE st.buckets[q]],
          iterators |-> [q \in DOMAIN st.iterators \cup {key} |-> IF full THEN next ELSE it]]

\* One step of the loop over the tensors: tensor i (1-based), recorded as index
\* tensor_index, goes to its own bucket when it expects a sparse gradient and
\* to the accumulator of its (dtype, device) key otherwise; an accumulator that
\* reached its size limit is emitted and the key moves on to the next limit.
AssignStep(st, tensor, tensor_index, bucket_size_limits, expect_sparse_gradient) ==
  IF expect_sparse_gradient # <<>> /\ expect_sparse_gradient[tensor_index + 1]
    THEN [st EXCEPT !.result = Append(@, <<tensor_index>>)]
    ELSE
      LET key == BucketKey(tensor)
          old == IF key \in DOMAIN st.buckets THEN st.buckets[key] ELSE [indices |-> <<>>, size |-> 0]
          acc == [indices |-> Append(old.indices, tensor_index),
                  size |-> old.size + tensor.numel * element_size(tensor.dtype)]
          it == IF key \in DOMAIN st.iterators THEN st.iterators[key] ELSE 1
          full == acc.size >= bucket_size_limits[it]
          next == IF it + 1 <= Len(bucket_size_limits) THEN it + 1 ELSE it
          put(f, k, x) == [q \in DOMAIN f \cup {k} |-> IF q = k THEN x ELSE f[q]]
      IN [result |-> IF full THEN Append(st.result, acc.indices) ELSE st.result,
          buckets |-> put(st.buckets, key, IF full THEN [indices |-> <<>>, size |-> 0] ELSE acc),
          iterators |-> put(st.iterators, key, IF full THEN next ELSE it)]

RECURSIVE AssignLoop(_, _, _, _, _, _)
AssignLoop(st, i, tensors, bucket_size_limits, expect_sparse_gradient, tensor_indices) ==
  IF i > Len(tensors) THEN st
  ELSE AssignLoop(
         AssignStep(st, tensors[i],
                    IF tensor_indices = <<>> THEN i - 1 ELSE tensor_indices[i],
                    bucket_size_limits, expect_sparse_gradient),
         i + 1, tensors, bucket_size_limits, expect_sparse_gradient, tensor_indices)

\* No remaining buckets are added.
Remaining_dropped(buckets, key_order) == <<>>

\* "Add remaining buckets": the accumulators left non-empty, in the iteration
\* order key_order of the unordered_map.
RECURSIVE Remaining(_, _)
Remaining(buckets, key_order) ==
  IF key_order = <<>> THEN <<>>
  ELSE (IF Head(key_order) \in DOMAIN buckets /\ buckets[Head(key_order)].indices # <<>>
          THEN <<buckets[Head(key_order)].indices>> ELSE <<>>)
       \o Remaining(buckets, Tail(key_order))

\* The buckets left in the order they were emitted in.
SortByMin_emission_order(bs) == bs

\* std::sort of the buckets by their smallest index (the smallest indices of
\* two buckets differ whenever no index is recorded twice).
RECURSIVE SortByMin(_)
SortByMin(bs) ==
  IF bs = <<>> THEN <<>>
  ELSE LET m == CHOOSE i \in 1 .. Len(bs) : \A j \in 1 .. Len(bs) : MinOf(bs[i]) <= MinOf(bs[j])
       IN <<bs[m]>> \o SortByMin([k \in 1 .. Len(bs) - 1 |-> IF k < m THEN bs[k] ELSE bs[k + 1]])

compute_bucket_assignment_by_size(tensors, bucket_size_limits, expect_sparse_gradient, tensor_indices, key_order) ==
  IF ~(expect_sparse_gradient = <<>> \/ Len(tensors) = Len(expect_sparse_gradient))
       \/ ~(Len(tensors) > 0)
    THEN [error |-> "INTERNAL ASSERT", result |-> <<>>]
    ELSE
      LET st == AssignLoop([result |-> <<>>, buckets |-> <<>>, iterators |-> <<>>], 1,
                           tensors, bucket_size_limits, expect_sparse_gradient, tensor_indices)
          all == st.result \o Remaining(st.buckets, key_order)
      IN [error |-> "none",
          result |-> IF tensor_indices = <<>> THEN SortByMin(all) ELSE all]

\* ------------------------------------------------------------------------
\* sync_bucket_indices: what one rank ends with when rank 0 passed root.
\* ------------------------------------------------------------------------
BucketSizes(bucket_indices) == [i \in 1 .. Len(bucket_indices) |-> Len(bucket_indices[i])]

\* indices_tensor: all indices, then num_buckets.
PackIndices(bucket_indices) == Flatten(bucket_indices) \o <<Len(bucket_indices)>>

\* bucket_sizes_tensor of a rank that read num_buckets from the broadcast: its
\* own sizes, the last one repeated when it has fewer buckets.
PackSizes(bucket_indices, num_buckets) ==
  [i \in 1 .. num_buckets |->
     BucketSizes(bucket_indices)[Min(i - 1, Len(bucket_indices) - 1) + 1]]

\* process_group_->broadcast(t)->wait(): every rank ends with rank 0's tensor.
Broadcast(mine, roots) == roots

RECURSIVE Unpack(_, _, _)
Unpack(sizes, indices, from) ==
  IF sizes = <<>> THEN <<>>
  ELSE <<SubSeq(indices, from, from + Head(sizes) - 1)>>
       \o Unpack(Tail(sizes), indices, from + Head(sizes))

\* sync_bucket_indices unpacking with the sizes of the rank's own buckets.
sync_bucket_indices_local_sizes(bucket_indices, root) ==
  LET indices_tensor == Broadcast(PackIndices(bucket_indices), PackIndices(root))
      num_buckets == indices_tensor[Len(indices_tensor)]
  IN Unpack(PackSizes(bucket_indices, num_buckets), indices_tensor, 1)

sync_bucket_indices(bucket_indices, root) ==
  LET indices_tensor == Broadcast(PackIndices(bucket_indices), PackIndices(root))
      num_buckets == indices_tensor[Len(indices_tensor)]
      bucket_sizes_tensor ==
        Broadcast(PackSizes(bucket_indices, num_buckets),
                  PackSizes(root, PackIndices(root)[Len(PackIndices(root))]))
  IN Unpack(bucket_sizes_tensor, indices_tensor, 1)

\* ------------------------------------------------------------------------
\* verify_replica0_across_processes: the exception a rank throws ("none" if it
\* returns) when its replica 0 has the parameters mine and rank 0's has roots.
\* A parameter is given by its sizes and its strides.
\* ------------------------------------------------------------------------
\* metadata: the sizes, then the strides, of every parameter in turn.
Metadata(params) == Flatten([p \in 1 .. Len(params) |-> params[p].sizes \o params[p].strides])

\* The checks of one parameter with only its sizes compared.
CheckParam_sizes_only(t, control, i, p) ==
  IF \E j \in 1 .. Len(t.sizes) : t.sizes[j] # control[i + j]
    THEN [kind |-> "sizes", p |-> p]
    ELSE [kind |-> "none", p |-> p]

\* The two loops of TORCH_CHECKs for the parameter t at index p, whose entries
\* follow the first i entries of control.
CheckParam(t, control, i, p) ==
  IF \E j \in 1 .. Len(t.sizes) : t.sizes[j] # control[i + j]
    THEN [kind |-> "sizes", p |-> p]
  ELSE IF \E j \in 1 .. Len(t.strides) : t.strides[j] # control[i + Len(t.sizes) + j]
    THEN [kind |-> "strides", p |-> p]
  ELSE [kind |-> "none", p |-> p]

RECURSIVE CheckParams(_, _, _, _)
CheckParams(mine, control, i, p) ==
  IF p >= Len(mine) THEN [kind |-> "none", p |-> p]
  ELSE IF CheckParam(mine[p + 1], control, i, p).kind # "none"
    THEN CheckParam(mine[p + 1], control, i, p)
  ELSE CheckParams(mine, control, i + Len(mine[p + 1].sizes) + Len(mine[p + 1].strides), p + 1)

verify_replica0_across_processes(mine, roots) ==
  LET metadata_dev == Metadata(roots)
  IN CheckParams(mine, metadata_dev, 0, 0)

\* ------------------------------------------------------------------------
\* The Reducer.  A state s is a record of the members of the class:
\*   replicas_ (per replica, the parameters' dtype, device and numel),
\*   expect_sparse_gradients_, find_unused_parameters_, bucket_bytes_cap_,
\*   expect_autograd_hooks_, require_finalize_, next_bucket_,
\*   has_marked_unused_parameters_, unused_parameters_, buckets_,
\*   variable_locators_, local_used_maps_, local_used_maps_dev_,
\*   local_used_work_, local_used_maps_reduced_, has_rebuilt_bucket_,
\*   rebuilt_param_indices_ (rebuilt_params_ holds the tensors of the same
\*   indices), comm_hook_,
\* of the environment it acts on:
\*   grads (replica, variable -> the parameter's grad: undefined, a tensor of
\*   its own, or an alias of the variable's bucket view), callbacks (finalize
\*   callbacks queued on the autograd engine), iteration,
\* and of what the current backward pass did so far (history):
\*   launched (buckets in the order their reduction was started), marked
\*   (mark_variable_ready calls that returned, per replica and variable),
\*   fired (hook firings), grad_at_mark (the grad's kind and value on entry to
\*   the last such call, and the value seen through the variable's bucket view
\*   when the grad had been put into the bucket), enqueued (finalize callbacks queued by this pass),
\*   error (the exception of the running call, "none" if it returns),
\* and call, which is [op |-> "none"] in the life of a Reducer and holds the
\* arguments and the progress of the call when one function is run on its
\* own (sync_bucket_indices on several ranks,
\* compute_bucket_assignment_by_size).
\*
\* A Bucket is [replicas, variable_indices, pending, expect_sparse_gradient,
\* work, future_work, future_value]: work / future_work are 0 (null) or the
\* iteration that set the handle, future_value the tensors of the future of a
\* hook that returns tensors of its own.  A BucketReplica is [variables,
\* offsets, lengths, contents, contents_numel, result, views_on, pending]:
\* contents holds one value per variable of the flat buffer, contents_numel
\* the number of elements the buffer was allocated with, result the tensor a communication hook returned, views_on
\* names the tensor bucket_views alias ("contents" or "result").  pending is
\* -1 until prepare_for_backward first writes it (the structs do not
\* initialize it).
\* ------------------------------------------------------------------------
Throw(s, msg) == [s EXCEPT !.error = msg]

Failed(s) == s.error # "none"

Replicas(s) == 0 .. (Len(s.replicas_) - 1)

\* A grad tensor: undefined, a tensor with storage of its own, or an alias of
\* the view at slot `at[2]` (1-based) of the bucket at index `at[1]`.
Undefined == [kind |-> "undef", val |-> Zero, at |-> <<0, 0>>]

AliasOfView(bucket_index, i) == [kind |-> "view", val |-> Zero, at |-> <<bucket_index, i>>]

OwnTensor(x) == [kind |-> "own", val |-> x, at |-> <<0, 0>>]

\* grad.is_alias_of(bucket_view) for a view of the bucket at bucket_index: the
\* two tensors share the storage of the bucket's buffer.
IsAliasOf(grad, bucket_index) == grad.kind = "view" /\ grad.at[1] = bucket_index

\* The value seen through bucket_views[i] of a bucket replica (i is 1-based).
ViewOf(rep, i) == IF rep.views_on = "contents" THEN rep.contents[i] ELSE rep.result[i]

WriteView(rep, i, x) ==
  IF rep.views_on = "contents"
    THEN [rep EXCEPT !.contents[i] = x]
    ELSE [rep EXCEPT !.result[i] = x]

\* The bucket replica holding variable v of replica r, by variable_locators_.
ReplicaOf(s, r, v) == s.buckets_[s.variable_locators_[v].bucket_index + 1].replicas[r + 1]

\* The value of the grad tensor of variable v of replica r.
GradValue(s, r, v) ==
  LET g == s.grads[r][v]
  IN IF g.kind = "own" THEN g.val
     ELSE IF g.kind = "view"
       THEN ViewOf(s.buckets_[g.at[1] + 1].replicas[r + 1], g.at[2])
       ELSE Garbage

\* Grads that aliased the views of buckets which are being destroyed keep
\* their storage alive on their own.
Materialize(s) ==
  [r \in Replicas(s) |-> [v \in Vars |->
     IF s.grads[r][v].kind = "view" THEN OwnTensor(GradValue(s, r, v)) ELSE s.grads[r][v]]]

\* initialize_bucket_views(replica, contents, copy_to_bucket_view): the views
\* are rebuilt on the tensor `target` of rep; same_storage tells whether that
\* tensor shares its storage with the tensor the views were on before.  The
\* shape and strides of a view (the gradient layout contract) do not change a
\* value and are not modelled.
\* bucket_index is the index of the bucket of rep; done holds the variables
\* whose grad this call has already pointed to a new view.  While
\* initialize_buckets runs, a grad that has been pointed to a view of a new
\* bucket carries in val the value copied there, so grad.val is what
\* bucket_view.copy_(grad) reads for every defined grad (see Materialize and
\* ForgetCopies).
RECURSIVE initialize_bucket_views_loop(_, _, _, _, _, _, _, _)
initialize_bucket_views_loop(rep, grads_r, i, target, same_storage, copy_to_bucket_view, bucket_index, done) ==
  IF i > Len(rep.variables) THEN [replica |-> [rep EXCEPT !.views_on = target], grads |-> grads_r]
  ELSE
    LET v == rep.variables[i]
        grad == grads_r[v]
        is_alias == IsAliasOf(grad, bucket_index) /\ (same_storage \/ v \in done)
        redirect == grad.kind # "undef" /\ ~is_alias
        copied == IF redirect /\ copy_to_bucket_view
                    THEN (IF target = "contents"
                            THEN [rep EXCEPT !.contents[i] = grad.val]
                            ELSE [rep EXCEPT !.result[i] = grad.val])
                    ELSE rep
    IN initialize_bucket_views_loop(
         copied,
         IF redirect
           THEN [grads_r EXCEPT ![v] = [AliasOfView(bucket_index, i) EXCEPT
                                          !.val = IF copy_to_bucket_view THEN grad.val ELSE Zero]]
           ELSE grads_r,
         i + 1, target, same_storage, copy_to_bucket_view, bucket_index,
         IF redirect THEN done \cup {v} ELSE done)

\* initialize_bucket_views that points the grads to the new views without
\* copying them there.
initialize_bucket_views_no_copy(rep, grads_r, target, same_storage, copy_to_bucket_view, bucket_index) ==
  initialize_bucket_views_loop(rep, grads_r, 1, target, same_storage, FALSE, bucket_index, {})

initialize_bucket_views(rep, grads_r, target, same_storage, copy_to_bucket_view, bucket_index) ==
  initialize_bucket_views_loop(rep, grads_r, 1, target, same_storage, copy_to_bucket_view,
                               bucket_index, {})

\* The prefix sums of the numels: offsets of the variables in the flat buffer.
RECURSIVE Offsets(_, _)
Offsets(lengths, from) ==
  IF lengths = <<>> THEN <<>> ELSE <<from>> \o Offsets(Tail(lengths), from + Head(lengths))

\* The checks of the loop without the comparison of the dtypes.
RECURSIVE VariablesCheck_ignores_dtype(_, _, _)
VariablesCheck_ignores_dtype(params, indices, i) ==
  IF i > Len(indices) THEN "none"
  ELSE IF ~(indices[i] < Len(params)) THEN "Out of range variable index specified."
  ELSE IF params[indices[i] + 1].device # params[indices[1] + 1].device
    THEN "All parameters in a bucket must be placed on the same device."
  ELSE VariablesCheck_ignores_dtype(params, indices, i + 1)

\* The checks of the loop "Iterate over bucket variables" for one replica:
\* the first that fails, or "none".
RECURSIVE VariablesCheck(_, _, _)
VariablesCheck(params, indices, i) ==
  IF i > Len(indices) THEN "none"
  ELSE IF ~(indices[i] < Len(params)) THEN "Out of range variable index specified."
  ELSE IF params[indices[i] + 1].device # params[indices[1] + 1].device
    THEN "All parameters in a bucket must be placed on the same device."
  ELSE IF params[indices[i] + 1].dtype # params[indices[1] + 1].dtype
    THEN "All parameters in a bucket must have the same dtype."
  ELSE VariablesCheck(params, indices, i + 1)

\* One BucketReplica of a new bucket over `indices`.
NewReplica(s, r, indices, expect_sparse_gradient, bucket_index) ==
  IF expect_sparse_gradient
    THEN [error |-> "none", grads |-> s.grads[r],
          replica |-> [variables |-> <<indices[1]>>, offsets |-> <<>>, lengths |-> <<>>,
                       contents |-> <<Garbage>>, contents_numel |-> 0, result |-> <<>>,
                       views_on |-> "contents", pending |-> -1]]
    ELSE
      LET params == s.replicas_[r + 1]
          check == VariablesCheck(params, indices, 1)
          lengths == [i \in 1 .. Len(indices) |-> params[indices[i] + 1].numel]
          offsets == Offsets(lengths, 0)
          offset == IF indices = <<>> THEN 0 ELSE offsets[Len(indices)] + lengths[Len(indices)]
          fresh == [variables |-> indices, offsets |-> offsets, lengths |-> lengths,
                    contents |-> [i \in 1 .. Len(indices) |-> Garbage], contents_numel |-> offset,
                    result |-> <<>>, views_on |-> "contents", pending |-> -1]
          built == initialize_bucket_views(fresh, s.grads[r], "contents", FALSE, TRUE, bucket_index)
      IN IF check # "none"
           THEN [error |-> check, grads |-> s.grads[r], replica |-> fresh]
           ELSE [error |-> "none", grads |-> built.grads, replica |-> built.replica]

RECURSIVE NewReplicas(_, _, _, _, _, _)
NewReplicas(s, r, indices, expect_sparse_gradient, bucket_index, done) ==
  IF r >= Len(s.replicas_) THEN [error |-> "none", grads |-> s.grads, replicas |-> done]
  ELSE
    LET one == NewReplica(s, r, indices, expect_sparse_gradient, bucket_index)
    IN IF one.error # "none"
         THEN [error |-> one.error, grads |-> s.grads, replicas |-> done]
         ELSE NewReplicas([s EXCEPT !.grads[r] = one.grads], r + 1, indices,
                          expect_sparse_gradient, bucket_index, Append(done, one.replica))

\* The variables of a bucket all mapped to its first slot.
SetLocators_first_slot(locators, indices, bucket_index, i) ==
  [v \in DOMAIN locators |->
     IF \E k \in 1 .. Len(indices) : indices[k] = v
       THEN [bucket_index |-> bucket_index, intra_bucket_index |-> 0]
       ELSE locators[v]]

\* "Map participating variables to this bucket": the locators written before
\* an index out of range stops the loop.
RECURSIVE SetLocators(_, _, _, _)
SetLocators(locators, indices, bucket_index, i) ==
  IF i > Len(indices) \/ ~(indices[i] \in DOMAIN locators) THEN locators
  ELSE SetLocators(
         [locators EXCEPT ![indices[i]] = [bucket_index |-> bucket_index, intra_bucket_index |-> i - 1]],
         indices, bucket_index, i + 1)

\* The body of the loop over bucket_indices for the bucket at bucket_index.
\* A grad redirected to a view of a bucket that is dropped by an exception
\* keeps that view's storage on its own.
NewBucket(s, indices, bucket_index) ==
  IF ~(Len(indices) > 0) THEN Throw(s, "Empty bucket specified.")
  ELSE
    LET sparse_flag(i) == s.expect_sparse_gradients_[1][indices[i] + 1]
        expect_sparse_gradient == Len(indices) = 1 /\ sparse_flag(1)
        mixed == Len(indices) > 1 /\ \E i \in 1 .. Len(indices) : sparse_flag(i)
        reps == NewReplicas(s, 0, indices, expect_sparse_gradient, bucket_index, <<>>)
        in_range == \A i \in 1 .. Len(indices) : indices[i] \in DOMAIN s.variable_locators_
        bucket == [replicas |-> reps.replicas, variable_indices |-> indices, pending |-> -1,
                   expect_sparse_gradient |-> expect_sparse_gradient, work |-> 0, future_work |-> 0,
                   future_value |-> <<>>]
    IN IF mixed
         THEN Throw(s, "Buckets with more than one variable cannot include variables that expect a sparse gradient.")
       ELSE IF reps.error # "none" THEN Throw(s, reps.error)
       ELSE IF ~in_range
         THEN Throw([s EXCEPT !.variable_locators_ = SetLocators(@, indices, bucket_index, 1)],
                    "Out of range variable index specified.")
       ELSE [s EXCEPT !.grads = reps.grads,
                      !.variable_locators_ = SetLocators(@, indices, bucket_index, 1),
                      !.buckets_ = Append(@, bucket)]

RECURSIVE initialize_buckets_loop(_, _, _)
initialize_buckets_loop(s, bucket_indices, bucket_index) ==
  IF Failed(s) \/ bucket_index >= Len(bucket_indices) THEN s
  ELSE initialize_buckets_loop(NewBucket(s, bucket_indices[bucket_index + 1], bucket_index),
                               bucket_indices, bucket_index + 1)

\* The value of a grad that aliases a view is the view's.
ForgetCopies(s) ==
  [s EXCEPT !.grads = [r \in Replicas(s) |-> [v \in Vars |->
     IF s.grads[r][v].kind = "view"
       THEN AliasOfView(s.grads[r][v].at[1], s.grads[r][v].at[2])
       ELSE s.grads[r][v]]]]

initialize_buckets(s, bucket_indices) ==
  IF s.expect_autograd_hooks_
    THEN Throw(s, "initialize_buckets must NOT be called during autograd execution.")
    ELSE ForgetCopies(initialize_buckets_loop(
           [s EXCEPT !.grads = Materialize(s),
                     !.buckets_ = <<>>,
                     !.variable_locators_ = [v \in Vars |-> [bucket_index |-> 0, intra_bucket_index |-> 0]]],
           bucket_indices, 0))

\* ------------------------------------------------------------------------
\* The hook path.
\* ------------------------------------------------------------------------
NoHook(s) == s.comm_hook_ = "none"

SetReplica(s, r, v, rep) ==
  [s EXCEPT !.buckets_[s.variable_locators_[v].bucket_index + 1].replicas[r + 1] = rep]

\* mark_variable_ready_dense dividing by the world size whether or not a
\* communication hook is registered.
mark_variable_ready_dense_divides(s, r, v) ==
  LET bucket_index == s.variable_locators_[v].bucket_index
      i == s.variable_locators_[v].intra_bucket_index + 1
      replica == ReplicaOf(s, r, v)
      variable == replica.variables[i]
      grad == s.grads[r][variable]
  IN IF grad.kind # "undef"
       THEN IF ~IsAliasOf(grad, bucket_index)
              THEN [SetReplica(s, r, v, WriteView(replica, i, DivW(GradValue(s, r, variable))))
                    EXCEPT !.grads[r][variable] = AliasOfView(bucket_index, i)]
              ELSE SetReplica(s, r, v, WriteView(replica, i, DivW(ViewOf(replica, i))))
       ELSE SetReplica(s, r, v, WriteView(replica, i, Zero))

\* mark_variable_ready_dense.  The grad is the one of the variable found at
\* the locator of v, so the type, device and numel checks compare a grad with
\* the view of its own parameter and hold for every grad the engine produces;
\* differing strides only warn.
mark_variable_ready_dense(s, r, v) ==
  LET bucket_index == s.variable_locators_[v].bucket_index
      i == s.variable_locators_[v].intra_bucket_index + 1
      replica == ReplicaOf(s, r, v)
      variable == replica.variables[i]
      grad == s.grads[r][variable]
      x == GradValue(s, r, variable)
  IN IF grad.kind # "undef"
       THEN IF ~IsAliasOf(grad, bucket_index)
              THEN [SetReplica(s, r, v, WriteView(replica, i, IF NoHook(s) THEN DivW(x) ELSE x))
                    EXCEPT !.grads[r][variable] = AliasOfView(bucket_index, i)]
              ELSE IF NoHook(s)
                     THEN SetReplica(s, r, v, WriteView(replica, i, DivW(ViewOf(replica, i))))
                     ELSE s
       ELSE SetReplica(s, r, v, WriteView(replica, i, Zero))

\* mark_variable_ready_sparse: the grad itself becomes the bucket's contents.
mark_variable_ready_sparse(s, r, v) ==
  LET bucket_index == s.variable_locators_[v].bucket_index
      replica == ReplicaOf(s, r, v)
      variable == replica.variables[s.variable_locators_[v].intra_bucket_index + 1]
      grad == s.grads[r][variable]
      x == GradValue(s, r, variable)
  IN IF grad.kind = "undef" THEN Throw(s, "Expected sparse gradient to be defined.")
     ELSE [SetReplica(s, r, v,
             [replica EXCEPT !.contents = <<IF NoHook(s) THEN DivW(x) ELSE x>>,
                             !.views_on = "contents"])
           EXCEPT !.grads[r][variable] = AliasOfView(bucket_index, 1)]

\* process_group_->allreduce(tensors) on the contents of all the replicas of a
\* bucket: every tensor ends with the sum over the replicas and the ranks.
AllReduce(bucket) ==
  LET n == Len(bucket.variable_indices)
      total == [i \in 1 .. n |->
                  Add(SumSeq([k \in 1 .. Len(bucket.replicas) |-> bucket.replicas[k].contents[i]]),
                      PeerContribution(bucket.variable_indices[i]))]
  IN [bucket EXCEPT !.replicas = [k \in 1 .. Len(bucket.replicas) |->
                                    [bucket.replicas[k] EXCEPT !.contents = total]]]

\* comm_hook_->runHook(GradBucket(tensors)): the registered hook sums the
\* bucket over the ranks without dividing, either in place ("inplace": the
\* future's tensors are the contents tensors) or into tensors of its own
\* ("fresh").  The other ranks contribute their undivided gradients.
HookResult(bucket) ==
  [k \in 1 .. Len(bucket.replicas) |->
     [i \in 1 .. Len(bucket.variable_indices) |->
        Add(bucket.replicas[k].contents[i], Val(PeerGradSum(bucket.variable_indices[i])))]]

RunHook(s, bucket) ==
  IF s.comm_hook_ = "inplace"
    THEN [bucket EXCEPT !.future_work = s.iteration,
                        !.future_value = <<>>,
                        !.replicas = [k \in 1 .. Len(bucket.replicas) |->
                                        [bucket.replicas[k] EXCEPT !.contents = HookResult(bucket)[k]]]]
    ELSE [bucket EXCEPT !.future_work = s.iteration, !.future_value = HookResult(bucket)]

\* The body of the loop of mark_bucket_ready for the bucket at next_bucket_.
LaunchBucket(s) ==
  LET bucket == s.buckets_[s.next_bucket_ + 1]
  IN [s EXCEPT !.buckets_[s.next_bucket_ + 1] =
                  IF NoHook(s) THEN [AllReduce(bucket) EXCEPT !.work = s.iteration]
                  ELSE RunHook(s, bucket),
               !.launched = Append(@, s.next_bucket_),
               !.next_bucket_ = @ + 1]

\* The loop of mark_bucket_ready stopping after its first bucket.
LaunchLoop_once(s) ==
  IF s.next_bucket_ < Len(s.buckets_) /\ s.buckets_[s.next_bucket_ + 1].pending = 0
    THEN LaunchBucket(s)
    ELSE s

RECURSIVE LaunchLoop(_)
LaunchLoop(s) ==
  IF s.next_bucket_ < Len(s.buckets_) /\ s.buckets_[s.next_bucket_ + 1].pending = 0
    THEN LaunchLoop(LaunchBucket(s))
    ELSE s

\* mark_bucket_ready that reduces the bucket it is given without waiting for
\* its turn.
mark_bucket_ready_out_of_turn(s, bucket_index) ==
  LET bucket == s.buckets_[bucket_index + 1]
  IN [s EXCEPT !.buckets_[bucket_index + 1] =
                  IF NoHook(s) THEN [AllReduce(bucket) EXCEPT !.work = s.iteration]
                  ELSE RunHook(s, bucket),
               !.launched = Append(@, bucket_index),
               !.next_bucket_ = @ + 1]

mark_bucket_ready(s, bucket_index) ==
  IF ~(bucket_index >= s.next_bucket_) THEN Throw(s, "INTERNAL ASSERT bucket_index >= next_bucket_")
  ELSE IF bucket_index > s.next_bucket_ THEN s
  ELSE LaunchLoop(s)

\* No check that the bucket replica is already complete.
MarkedTwiceCheck_never(s, replica) == "none"

\* The check with a legal path: no error once the unused parameters have been
\* marked.
MarkedTwiceCheck_legal_path(s, replica) ==
  IF replica.pending = 0 /\ ~s.has_marked_unused_parameters_
    THEN "Expected to mark a variable ready only once. 3) Incorrect unused parameter detection."
    ELSE "none"

\* "Something is wrong if all variables contained in this bucket replica have
\* already been marked as ready": the error of the two TORCH_CHECKs, or "none".
MarkedTwiceCheck(s, replica) ==
  IF replica.pending = 0
    THEN IF ~s.has_marked_unused_parameters_
           THEN "Expected to mark a variable ready only once. 3) Incorrect unused parameter detection."
           ELSE "Expected to mark a variable ready only once."
    ELSE "none"

\* The decrement counting every marking against the bucket.
DecrementPending_every_mark(s, r, v) ==
  LET b == s.variable_locators_[v].bucket_index
      s2 == [s EXCEPT !.buckets_[b + 1].replicas[r + 1].pending = @ - 1,
                      !.buckets_[b + 1].pending = @ - 1]
  IN IF s2.buckets_[b + 1].pending = 0 THEN mark_bucket_ready(s2, b) ELSE s2

\* "Check if this was the final gradient for this bucket."
DecrementPending(s, r, v) ==
  LET b == s.variable_locators_[v].bucket_index
      s1 == [s EXCEPT !.buckets_[b + 1].replicas[r + 1].pending = @ - 1]
      s2 == [s1 EXCEPT !.buckets_[b + 1].pending = @ - 1]
  IN IF s1.buckets_[b + 1].replicas[r + 1].pending = 0
       THEN IF s2.buckets_[b + 1].pending = 0 THEN mark_bucket_ready(s2, b) ELSE s2
       ELSE s1

\* No finalizer queued and no reduction of the usage maps started.
KickOffFinalize_never(s) == s

\* The finalizer queued by every marking.
KickOffFinalize_every_mark(s) == [s EXCEPT !.callbacks = @ + 1, !.enqueued = @ + 1]

\* The finalizer and the reduction of the usage maps kicked off when the last
\* bucket is the next to be launched.
KickOffFinalize_before_last_launch(s) ==
  IF s.next_bucket_ + 1 >= Len(s.buckets_)
    THEN [s EXCEPT !.local_used_work_ = IF s.find_unused_parameters_ THEN s.iteration ELSE @,
                   !.callbacks = @ + 1, !.enqueued = @ + 1]
    ELSE s

\* "Run finalizer function and kick off reduction for local_used_maps once the
\* final bucket was marked ready."  The all-reduce of the usage maps sums them
\* over the replicas and the ranks; peer_used is what the other ranks add.
KickOffFinalize(s) ==
  IF s.next_bucket_ = Len(s.buckets_)
    THEN LET total == [v \in Vars |->
                         SumInt([k \in 1 .. Len(s.replicas_) |-> s.local_used_maps_[k - 1][v]])
                         + s.peer_used[v]]
             s1 == IF s.find_unused_parameters_
                     THEN [s EXCEPT !.local_used_maps_dev_ = [r \in Replicas(s) |-> total],
                                    !.local_used_work_ = s.iteration]
                     ELSE s
         IN [s1 EXCEPT !.callbacks = @ + 1, !.enqueued = @ + 1]
    ELSE s

mark_variable_ready(s, r, v) ==
  IF ~(r < Len(s.replicas_)) THEN Throw(s, "Out of range replica index.")
  ELSE IF ~(v \in DOMAIN s.variable_locators_) THEN Throw(s, "Out of range variable index.")
  ELSE
    LET s1 == [s EXCEPT !.require_finalize_ = TRUE]
        check == MarkedTwiceCheck(s1, ReplicaOf(s1, r, v))
        s2 == [s1 EXCEPT !.marked[r][v] = @ + 1,
                         !.grad_at_mark[r][v] =
                            [kind |-> s1.grads[r][v].kind, val |-> GradValue(s1, r, v),
                             view |-> Garbage]]
        ready == IF s2.buckets_[s2.variable_locators_[v].bucket_index + 1].expect_sparse_gradient
                   THEN mark_variable_ready_sparse(s2, r, v)
                   ELSE mark_variable_ready_dense(s2, r, v)
        s3 == IF Failed(ready) THEN ready
              ELSE [ready EXCEPT !.grad_at_mark[r][v].view =
                      ViewOf(ReplicaOf(ready, r, v), ready.variable_locators_[v].intra_bucket_index + 1)]
        s4 == IF Failed(s3) THEN s3 ELSE DecrementPending(s3, r, v)
    IN IF check # "none" THEN Throw(s1, check)
       ELSE IF Failed(s4) THEN s4
       ELSE KickOffFinalize(s4)

\* "for (const auto& unused_index : unused_parameters_) mark_variable_ready"
RECURSIVE MarkUnused(_, _)
MarkUnused(s, k) ==
  IF Failed(s) \/ k > Len(s.unused_parameters_) THEN s
  ELSE MarkUnused(mark_variable_ready(s, s.unused_parameters_[k][1], s.unused_parameters_[k][2]), k + 1)

\* autograd_hook recording the arrival order also after the rebuild.
autograd_hook_records_always(s, r, v) ==
  LET s1 == IF s.find_unused_parameters_ THEN [s EXCEPT !.local_used_maps_[r][v] = 1] ELSE s
      s2 == IF ~s1.find_unused_parameters_ /\ r = 0
              THEN [s1 EXCEPT !.rebuilt_param_indices_ = Append(@, v)]
              ELSE s1
      s3 == IF ~s2.has_marked_unused_parameters_ /\ s2.find_unused_parameters_
              THEN MarkUnused([s2 EXCEPT !.has_marked_unused_parameters_ = TRUE], 1)
              ELSE s2
  IN IF ~s1.expect_autograd_hooks_ THEN s1
     ELSE IF Failed(s3) THEN s3
     ELSE mark_variable_ready(s3, r, v)

\* autograd_hook recording the arrival order before it looks at
\* expect_autograd_hooks_.
autograd_hook_records_outside_pass(s, r, v) ==
  LET s1 == IF s.find_unused_parameters_ THEN [s EXCEPT !.local_used_maps_[r][v] = 1] ELSE s
      s2 == IF ~s1.has_rebuilt_bucket_ /\ ~s1.find_unused_parameters_ /\ r = 0
              THEN [s1 EXCEPT !.rebuilt_param_indices_ = Append(@, v)]
              ELSE s1
      s3 == IF ~s2.has_marked_unused_parameters_ /\ s2.find_unused_parameters_
              THEN MarkUnused([s2 EXCEPT !.has_marked_unused_parameters_ = TRUE], 1)
              ELSE s2
  IN IF ~s1.expect_autograd_hooks_ THEN s2
     ELSE IF Failed(s3) THEN s3
     ELSE mark_variable_ready(s3, r, v)

autograd_hook(s, r, v) ==
  LET s1 == IF s.find_unused_parameters_ THEN [s EXCEPT !.local_used_maps_[r][v] = 1] ELSE s
      s2 == IF ~s1.has_rebuilt_bucket_ /\ ~s1.find_unused_parameters_ /\ r = 0
              THEN [s1 EXCEPT !.rebuilt_param_indices_ = Append(@, v)]
              ELSE s1
      s3 == IF ~s2.has_marked_unused_parameters_ /\ s2.find_unused_parameters_
              THEN MarkUnused([s2 EXCEPT !.has_marked_unused_parameters_ = TRUE], 1)
              ELSE s2
  IN IF ~s1.expect_autograd_hooks_ THEN s1
     ELSE IF Failed(s3) THEN s3
     ELSE mark_variable_ready(s3, r, v)

\* ------------------------------------------------------------------------
\* prepare_for_backward, finalize_backward, rebuild_buckets,
\* register_comm_hook.
\* ------------------------------------------------------------------------
\* No check of the prior reduction.
PriorReductionCheck_never(s) == "none"

\* "Check that any prior reduction has finished."
PriorReductionCheck(s) ==
  IF s.require_finalize_
    THEN "Expected to have finished reduction in the prior iteration before starting a new one."
    ELSE "none"

\* "Reset accounting" that leaves next_bucket_ where the last pass ended.
ResetAccounting_keeps_next_bucket(s) ==
  [s EXCEPT !.expect_autograd_hooks_ = TRUE,
            !.buckets_ = [b \in 1 .. Len(s.buckets_) |->
                            [s.buckets_[b] EXCEPT
                               !.replicas = [k \in 1 .. Len(s.buckets_[b].replicas) |->
                                               [s.buckets_[b].replicas[k] EXCEPT
                                                  !.pending = Len(s.buckets_[b].replicas[k].variables)]],
                               !.pending = Len(s.buckets_[b].replicas)]],
            !.has_marked_unused_parameters_ = FALSE,
            !.unused_parameters_ = <<>>]

\* "Reset accounting."
ResetAccounting(s) ==
  [s EXCEPT !.expect_autograd_hooks_ = TRUE,
            !.next_bucket_ = 0,
            !.buckets_ = [b \in 1 .. Len(s.buckets_) |->
                            [s.buckets_[b] EXCEPT
                               !.replicas = [k \in 1 .. Len(s.buckets_[b].replicas) |->
                                               [s.buckets_[b].replicas[k] EXCEPT
                                                  !.pending = Len(s.buckets_[b].replicas[k].variables)]],
                               !.pending = Len(s.buckets_[b].replicas)]],
            !.has_marked_unused_parameters_ = FALSE,
            !.unused_parameters_ = <<>>]

\* prepare_for_backward that resets the accounting before it checks that the
\* prior reduction has finished.
prepare_for_backward_reset_first(s, graph_unused) ==
  IF PriorReductionCheck(s) # "none" THEN Throw(ResetAccounting(s), PriorReductionCheck(s))
  ELSE IF ~s.find_unused_parameters_ THEN ResetAccounting(s)
  ELSE [ResetAccounting(s) EXCEPT !.unused_parameters_ = graph_unused]

\* prepare_for_backward(outputs): graph_unused lists the (replica, variable)
\* pairs whose gradient accumulator the search from outputs does not reach, in
\* the iteration order of func_.
prepare_for_backward(s, graph_unused) ==
  IF PriorReductionCheck(s) # "none" THEN Throw(s, PriorReductionCheck(s))
  ELSE IF ~s.find_unused_parameters_ THEN ResetAccounting(s)
  ELSE [ResetAccounting(s) EXCEPT !.unused_parameters_ = graph_unused]

\* The body of the two loops of finalize_bucket_dense for replica r and the
\* variable at intra_bucket_index i - 1 of the bucket at bucket_index.
FinalizeVariable(s, bucket_index, r, i) ==
  LET variable_index == s.buckets_[bucket_index + 1].variable_indices[i]
      locally_unused == s.local_used_maps_[r][variable_index] = 0
      wait == s.find_unused_parameters_ /\ locally_unused /\ ~s.local_used_maps_reduced_
      s1 == IF wait
              THEN [s EXCEPT !.local_used_maps_ = s.local_used_maps_dev_,
                             !.local_used_maps_reduced_ = TRUE]
              ELSE s
      global_unused == s.find_unused_parameters_ /\ s1.local_used_maps_[r][variable_index] = 0
      variable == s.buckets_[bucket_index + 1].replicas[r + 1].variables[i]
      grad == s1.grads[r][variable]
  IN IF global_unused THEN s1
     ELSE IF grad.kind = "undef" THEN [s1 EXCEPT !.grads[r][variable] = AliasOfView(bucket_index, i)]
     ELSE IF ~IsAliasOf(grad, bucket_index)
       THEN Throw(s1, "INTERNAL ASSERT Grad should have been pointed to bucket_view if grad is defined")
     ELSE s1

RECURSIVE finalize_bucket_dense_loop(_, _, _, _)
finalize_bucket_dense_loop(s, bucket_index, r, i) ==
  IF Failed(s) \/ r >= Len(s.buckets_[bucket_index + 1].replicas) THEN s
  ELSE IF i > Len(s.buckets_[bucket_index + 1].replicas[r + 1].variables)
    THEN finalize_bucket_dense_loop(s, bucket_index, r + 1, 1)
  ELSE finalize_bucket_dense_loop(FinalizeVariable(s, bucket_index, r, i), bucket_index, r, i + 1)

finalize_bucket_dense(s, bucket_index) == finalize_bucket_dense_loop(s, bucket_index, 0, 1)

\* "auto future_result = comm_hook_->processFuture(...)" and the loop over it:
\* a sparse bucket copies the result into its contents, a dense one rebuilds
\* its views on the result tensor.
RECURSIVE UseFutureResult(_, _, _)
UseFutureResult(s, bucket_index, r) ==
  LET bucket == s.buckets_[bucket_index + 1]
      inplace == bucket.future_value = <<>>
      replica == bucket.replicas[r + 1]
      given == IF inplace THEN replica ELSE [replica EXCEPT !.result = bucket.future_value[r + 1]]
      built == initialize_bucket_views(given, s.grads[r],
                                       IF inplace THEN "contents" ELSE "result",
                                       inplace /\ replica.views_on = "contents", FALSE,
                                       bucket_index)
  IN IF r >= Len(bucket.replicas) THEN s
     ELSE IF bucket.expect_sparse_gradient
       THEN UseFutureResult(
              IF inplace THEN s
              ELSE [s EXCEPT !.buckets_[bucket_index + 1].replicas[r + 1].contents = bucket.future_value[r + 1]],
              bucket_index, r + 1)
     ELSE UseFutureResult(
            [s EXCEPT !.buckets_[bucket_index + 1].replicas[r + 1] = built.replica,
                      !.grads[r] = built.grads],
            bucket_index, r + 1)

\* The body of the loop "for (auto& bucket : buckets_)" of finalize_backward.
FinalizeBucket(s, bucket_index) ==
  LET bucket == s.buckets_[bucket_index + 1]
      s1 == IF NoHook(s) THEN s ELSE UseFutureResult(s, bucket_index, 0)
  IN IF NoHook(s) /\ bucket.work = 0 THEN Throw(s, "INTERNAL ASSERT Expected bucket.work not to be null.")
     ELSE IF ~NoHook(s) /\ bucket.future_work = 0
       THEN Throw(s, "INTERNAL ASSERT Expected bucket.future_work not to be null.")
     ELSE IF bucket.expect_sparse_gradient THEN s1
     ELSE finalize_bucket_dense(s1, bucket_index)

RECURSIVE FinalizeBuckets(_, _)
FinalizeBuckets(s, bucket_index) ==
  IF Failed(s) \/ bucket_index >= Len(s.buckets_) THEN s
  ELSE FinalizeBuckets(FinalizeBucket(s, bucket_index), bucket_index + 1)

\* "Reset unused parameter accounting."
ResetUsedMaps(s) ==
  IF s.find_unused_parameters_
    THEN [s EXCEPT !.local_used_maps_ = [r \in Replicas(s) |-> [v \in Vars |-> 0]],
                   !.local_used_maps_reduced_ = FALSE]
    ELSE s

finalize_backward(s) ==
  LET s1 == [s EXCEPT !.expect_autograd_hooks_ = FALSE]
      s2 == [s1 EXCEPT !.require_finalize_ = FALSE]
      s3 == FinalizeBuckets(s2, 0)
  IN IF ~s.expect_autograd_hooks_ THEN Throw(s, "INTERNAL ASSERT expect_autograd_hooks_")
     ELSE IF ~s1.require_finalize_ THEN Throw(s1, "INTERNAL ASSERT require_finalize_")
     ELSE IF ~(s2.next_bucket_ = Len(s2.buckets_)) THEN Throw(s2, "INTERNAL ASSERT next_bucket_ == buckets_.size()")
     ELSE IF Failed(s3) THEN s3
     ELSE ResetUsedMaps(s3)

\* The number of times a finalize_backward started in state s (whose
\* assertions on entry hold) calls local_used_work_->wait(): in
\* finalize_bucket_dense, where the wait sets local_used_maps_reduced_, and at
\* its end if local_used_maps_reduced_ is not set.
UsedWorkWaits(s) ==
  LET s3 == FinalizeBuckets([s EXCEPT !.expect_autograd_hooks_ = FALSE, !.require_finalize_ = FALSE], 0)
  IN (IF ~s.local_used_maps_reduced_ /\ s3.local_used_maps_reduced_ THEN 1 ELSE 0)
     + (IF ~Failed(s3) /\ s.find_unused_parameters_ /\ ~s3.local_used_maps_reduced_ THEN 1 ELSE 0)

kDefaultFirstBucketBytes == 1024 * 1024

\* rebuild_buckets that does not pass the recorded indices on: the tensors are
\* recorded by position and the buckets sorted.
rebuild_buckets_by_position(s) ==
  IF s.rebuilt_param_indices_ = <<>> THEN s
  ELSE IF ~(Len(s.replicas_[1]) = Len(s.rebuilt_param_indices_))
    THEN Throw(s, "INTERNAL ASSERT rebuilt parameter indices size is not same as original model parameters size.")
  ELSE
    LET rebuilt_params == [k \in 1 .. Len(s.rebuilt_param_indices_) |->
                             s.replicas_[1][s.rebuilt_param_indices_[k] + 1]]
        assigned == compute_bucket_assignment_by_size(
                      rebuilt_params, <<kDefaultFirstBucketBytes, s.bucket_bytes_cap_>>,
                      s.expect_sparse_gradients_[1], <<>>, <<BucketKey(rebuilt_params[1])>>)
    IN initialize_buckets([s EXCEPT !.has_rebuilt_bucket_ = TRUE,
                                    !.rebuilt_param_indices_ = <<>>],
                          sync_bucket_indices(assigned.result, assigned.result))

\* rebuild_buckets, on rank 0: the broadcasts of sync_bucket_indices return
\* what this process passed in.  All the parameters recorded share one dtype
\* and device when the constructor's replicas do (key_order names that key).
rebuild_buckets(s) ==
  IF s.rebuilt_param_indices_ = <<>> THEN s
  ELSE IF ~(Len(s.replicas_[1]) = Len(s.rebuilt_param_indices_))
    THEN Throw(s, "INTERNAL ASSERT rebuilt parameter indices size is not same as original model parameters size.")
  ELSE
    LET rebuilt_params == [k \in 1 .. Len(s.rebuilt_param_indices_) |->
                             s.replicas_[1][s.rebuilt_param_indices_[k] + 1]]
        keys == {BucketKey(rebuilt_params[k]) : k \in 1 .. Len(rebuilt_params)}
        key_order == CHOOSE q \in [1 .. Cardinality(keys) -> keys] :
                       \A a, b \in 1 .. Cardinality(keys) : a # b => q[a] # q[b]
        assigned == compute_bucket_assignment_by_size(
                      rebuilt_params, <<kDefaultFirstBucketBytes, s.bucket_bytes_cap_>>,
                      s.expect_sparse_gradients_[1], s.rebuilt_param_indices_, key_order)
        rebuilt_bucket_indices == sync_bucket_indices(assigned.result, assigned.result)
    IN IF assigned.error # "none" THEN Throw(s, assigned.error)
       ELSE initialize_buckets([s EXCEPT !.has_rebuilt_bucket_ = TRUE,
                                         !.rebuilt_param_indices_ = <<>>],
                               rebuilt_bucket_indices)

\* register_comm_hook without its two checks.
register_comm_hook_unchecked(s, iface) == [s EXCEPT !.comm_hook_ = iface]

register_comm_hook(s, iface) ==
  IF ~(s.comm_hook_ = "none") THEN Throw(s, "register_comm_hook can only be called once.")
  ELSE IF ~(Len(s.replicas_) = 1)
    THEN Throw(s, "Communication hook does not support single-process multiple-device mode.")
  ELSE [s EXCEPT !.comm_hook_ = iface]

\* ------------------------------------------------------------------------
\* The state machine.
\* ------------------------------------------------------------------------
VARIABLES
  replicas_,
  expect_sparse_gradients_,
  find_unused_parameters_,
  bucket_bytes_cap_,
  expect_autograd_hooks_,
  require_finalize_,
  next_bucket_,
  has_marked_unused_parameters_,
  unused_parameters_,
  buckets_,
  variable_locators_,
  local_used_maps_,
  local_used_maps_dev_,
  local_used_work_,
  local_used_maps_reduced_,
  has_rebuilt_bucket_,
  rebuilt_param_indices_,
  comm_hook_,
  grads,
  callbacks,
  iteration,
  launched,
  marked,
  fired,
  detours,
  grad_at_mark,
  enqueued,
  error,
  call

vars ==
  <<replicas_, expect_sparse_gradients_, find_unused_parameters_, bucket_bytes_cap_,
    expect_autograd_hooks_, require_finalize_, next_bucket_, has_marked_unused_parameters_,
    unused_parameters_, buckets_, variable_locators_, local_used_maps_,
    local_used_maps_dev_, local_used_work_, local_used_maps_reduced_, has_rebuilt_bucket_,
    rebuilt_param_indices_, comm_hook_, grads, callbacks,
    iteration, launched, marked, detours, fired,
    grad_at_mark, enqueued, error, call>>

\* The state at the start of a call: the members, no exception raised yet.
\* peer_used is an input of the call (what the other ranks add to the usage
\* maps if this call starts their all-reduce), not a member.
St ==
  [replicas_ |-> replicas_,
   expect_sparse_gradients_ |-> expect_sparse_gradients_,
   find_unused_parameters_ |-> find_unused_parameters_,
   bucket_bytes_cap_ |-> bucket_bytes_cap_,
   expect_autograd_hooks_ |-> expect_autograd_hooks_,
   require_finalize_ |-> require_finalize_,
   next_bucket_ |-> next_bucket_,
   has_marked_unused_parameters_ |-> has_marked_unused_parameters_,
   unused_parameters_ |-> unused_parameters_,
   buckets_ |-> buckets_,
   variable_locators_ |-> variable_locators_,
   local_used_maps_ |-> local_used_maps_,
   local_used_maps_dev_ |-> local_used_maps_dev_,
   local_used_work_ |-> local_used_work_,
   local_used_maps_reduced_ |-> local_used_maps_reduced_,
   has_rebuilt_bucket_ |-> has_rebuilt_bucket_,
   rebuilt_param_indices_ |-> rebuilt_param_indices_,
   comm_hook_ |-> comm_hook_,
   grads |-> grads,
   callbacks |-> callbacks,
   iteration |-> iteration,
   launched |-> launched,
   marked |-> marked,
   fired |-> fired,
   detours |-> detours,
   grad_at_mark |-> grad_at_mark,
   enqueued |-> enqueued,
   error |-> "none",
   call |-> call,
   peer_used |-> [v \in Vars |-> 0]]

Install(s) ==
  /\ replicas_' = s.replicas_
  /\ expect_sparse_gradients_' = s.expect_sparse_gradients_
  /\ find_unused_parameters_' = s.find_unused_parameters_
  /\ bucket_bytes_cap_' = s.bucket_bytes_cap_
  /\ expect_autograd_hooks_' = s.expect_autograd_hooks_
  /\ require_finalize_' = s.require_finalize_
  /\ next_bucket_' = s.next_bucket_
  /\ has_marked_unused_parameters_' = s.has_marked_unused_parameters_
  /\ unused_parameters_' = s.unused_parameters_
  /\ buckets_' = s.buckets_
  /\ variable_locators_' = s.variable_locators_
  /\ local_used_maps_' = s.local_used_maps_
  /\ local_used_maps_dev_' = s.local_used_maps_dev_
  /\ local_used_work_' = s.local_used_work_
  /\ local_used_maps_reduced_' = s.local_used_maps_reduced_
  /\ has_rebuilt_bucket_' = s.has_rebuilt_bucket_
  /\ rebuilt_param_indices_' = s.rebuilt_param_indices_
  /\ comm_hook_' = s.comm_hook_
  /\ grads' = s.grads
  /\ callbacks' = s.callbacks
  /\ iteration' = s.iteration
  /\ launched' = s.launched
  /\ marked' = s.marked
  /\ fired' = s.fired
  /\ detours' = s.detours
  /\ grad_at_mark' = s.grad_at_mark
  /\ enqueued' = s.enqueued
  /\ error' = s.error
  /\ call' = s.call

StartsAs(s) ==
  /\ replicas_ = s.replicas_
  /\ expect_sparse_gradients_ = s.expect_sparse_gradients_
  /\ find_unused_parameters_ = s.find_unused_parameters_
  /\ bucket_bytes_cap_ = s.bucket_bytes_cap_
  /\ expect_autograd_hooks_ = s.expect_autograd_hooks_
  /\ require_finalize_ = s.require_finalize_
  /\ next_bucket_ = s.next_bucket_
  /\ has_marked_unused_parameters_ = s.has_marked_unused_parameters_
  /\ unused_parameters_ = s.unused_parameters_
  /\ buckets_ = s.buckets_
  /\ variable_locators_ = s.variable_locators_
  /\ local_used_maps_ = s.local_used_maps_
  /\ local_used_maps_dev_ = s.local_used_maps_dev_
  /\ local_used_work_ = s.local_used_work_
  /\ local_used_maps_reduced_ = s.local_used_maps_reduced_
  /\ has_rebuilt_bucket_ = s.has_rebuilt_bucket_
  /\ rebuilt_param_indices_ = s.rebuilt_param_indices_
  /\ comm_hook_ = s.comm_hook_
  /\ grads = s.grads
  /\ callbacks = s.callbacks
  /\ iteration = s.iteration
  /\ launched = s.launched
  /\ marked = s.marked
  /\ fired = s.fired
  /\ detours = s.detours
  /\ grad_at_mark = s.grad_at_mark
  /\ enqueued = s.enqueued
  /\ error = s.error
  /\ call = s.call

NoHistory(s) ==
  [s EXCEPT !.launched = <<>>,
            !.marked = [r \in Replicas(s) |-> [v \in Vars |-> 0]],
            !.fired = [r \in Replicas(s) |-> [v \in Vars |-> 0]],
            !.grad_at_mark = [r \in Replicas(s) |-> [v \in Vars |->
                                [kind |-> "undef", val |-> Zero, view |-> Garbage]]],
            !.enqueued = 0]

\* bucket_bytes_cap values given to the constructor.
BucketBytesCaps == {1024 * 1024}

\* The members as the constructor's initializer list and body leave them,
\* before initialize_buckets.
Constructed(replica_count, find_unused_parameters, bucket_bytes_cap) ==
  NoHistory(
    [replicas_ |-> [k \in 1 .. replica_count |-> DefaultParams],
     expect_sparse_gradients_ |-> [k \in 1 .. replica_count |-> [i \in 1 .. NumVars |-> FALSE]],
     find_unused_parameters_ |-> find_unused_parameters,
     bucket_bytes_cap_ |-> bucket_bytes_cap,
     expect_autograd_hooks_ |-> FALSE,
     require_finalize_ |-> FALSE,
     next_bucket_ |-> 0,
     has_marked_unused_parameters_ |-> FALSE,
     unused_parameters_ |-> <<>>,
     buckets_ |-> <<>>,
     variable_locators_ |-> [v \in Vars |-> [bucket_index |-> 0, intra_bucket_index |-> 0]],
     local_used_maps_ |-> [r \in 0 .. (replica_count - 1) |-> [v \in Vars |-> 0]],
     local_used_maps_dev_ |-> [r \in 0 .. (replica_count - 1) |-> [v \in Vars |-> -1]],
     local_used_work_ |-> 0,
     local_used_maps_reduced_ |-> FALSE,
     has_rebuilt_bucket_ |-> FALSE,
     rebuilt_param_indices_ |-> <<>>,
     comm_hook_ |-> "none",
     grads |-> [r \in 0 .. (replica_count - 1) |-> [v \in Vars |-> Undefined]],
     callbacks |-> 0,
     iteration |-> 0,
     launched |-> <<>>, marked |-> <<>>, fired |-> <<>>, detours |-> 0, grad_at_mark |-> <<>>, enqueued |-> 0,
     error |-> "none",
     call |-> [op |-> "none"],
     peer_used |-> [v \in Vars |-> 0]])

\* The grads of the parameters handed to the constructor: all undefined (the
\* usual case), or all defined by backward passes run before the model was
\* wrapped.
GradsAtConstruction(replica_count) ==
  {[r \in 0 .. (replica_count - 1) |-> [v \in Vars |-> Undefined]],
   [r \in 0 .. (replica_count - 1) |-> [v \in Vars |-> OwnTensor(CHOOSE g \in GradInputs(v) : TRUE)]]}

\* Reducer::Reducer: the state after construction, for every number of
\* replicas, both settings of find_unused_parameters and every layout.
Init ==
  \E replica_count \in 1 .. MaxReplicas, find_unused_parameters \in BOOLEAN,
     bucket_bytes_cap \in BucketBytesCaps, bucket_indices \in Layouts :
    \E grads_given \in GradsAtConstruction(replica_count) :
      StartsAs(initialize_buckets(
                [Constructed(replica_count, find_unused_parameters, bucket_bytes_cap)
                   EXCEPT !.grads = grads_given],
                bucket_indices))

\* AccumulateGrad of the autograd engine, which runs before the post hook: an
\* undefined grad becomes a tensor of its own, a defined one is written in
\* place (through to the bucket buffer when it aliases its bucket view).
AccumulateGrad(s, r, v, g) ==
  LET at == s.grads[r][v].at
  IN IF s.grads[r][v].kind = "view"
       THEN [s EXCEPT !.buckets_[at[1] + 1].replicas[r + 1] = WriteView(@, at[2], g)]
       ELSE [s EXCEPT !.grads[r][v] = OwnTensor(g)]

\* What the other ranks may add to the usage maps: they use none of the
\* parameters, or all of them on all their replicas.
PeerUsedInputs(s) ==
  IF s.find_unused_parameters_
    THEN {[v \in Vars |-> k * (WorldSize - 1) * Len(s.replicas_)] : k \in {0, 1}}
    ELSE {[v \in Vars |-> 0]}

\* The post hook of the gradient accumulator of variable v of replica r fires.
\* A firing the plain training loop does not have.
IsDetour(r, v) ==
  \/ ~expect_autograd_hooks_
  \/ fired[r][v] > 0
  \/ \E k \in 1 .. Len(unused_parameters_) : unused_parameters_[k] = <<r, v>>

AutogradHook(r, v, g, peer_used) ==
  /\ IsDetour(r, v) => detours < MaxDetours
  /\ LET s0 == AccumulateGrad([St EXCEPT !.peer_used = peer_used], r, v, g)
         s1 == IF expect_autograd_hooks_ THEN [s0 EXCEPT !.fired[r][v] = @ + 1] ELSE s0
         s2 == IF IsDetour(r, v) THEN [s1 EXCEPT !.detours = @ + 1] ELSE s1
     IN Install(autograd_hook(s2, r, v))

\* The (replica, variable) pairs of the variables in unused, replica by
\* replica.
RECURSIVE UnusedSeq(_, _, _, _)
UnusedSeq(s, unused, r, v) ==
  IF r >= Len(s.replicas_) THEN <<>>
  ELSE IF v >= NumVars THEN UnusedSeq(s, unused, r + 1, 0)
  ELSE (IF v \in unused THEN <<<<r, v>>>> ELSE <<>>) \o UnusedSeq(s, unused, r, v + 1)

\* prepare_for_backward(outputs), where the graph of outputs reaches the
\* accumulators of all variables but those in unused.
PrepareForBackward(unused) ==
  /\ LET s == prepare_for_backward(St, UnusedSeq(St, unused, 0, 0))
     IN IF Failed(s) THEN Install(s)
        ELSE /\ iteration * Len(replicas_) < MaxReplicaPasses
             /\ Install(NoHistory([s EXCEPT !.iteration = @ + 1]))

\* The engine runs a queued callback: finalize_backward.
RunCallback ==
  /\ callbacks > 0
  /\ Install(finalize_backward([St EXCEPT !.callbacks = @ - 1]))

PrepareForward == Install(rebuild_buckets(St))

RegisterCommHook(iface) ==
  LET s == register_comm_hook(St, iface)
  IN IF Failed(s) THEN Install(s)
     ELSE /\ detours < MaxDetours
          /\ Install([s EXCEPT !.detours = @ + 1])

\* The user resets the gradients to None between two backward passes
\* (zero_grad(set_to_none = True)).
ZeroGrad ==
  /\ ~expect_autograd_hooks_
  /\ \E r \in DOMAIN grads, v \in Vars : grads[r][v].kind # "undef"
  /\ detours < MaxDetours
  /\ Install([St EXCEPT !.grads = [r \in DOMAIN grads |-> [v \in Vars |-> Undefined]],
                         !.detours = @ + 1])

Next ==
  \/ \E r \in DOMAIN grads, v \in Vars, peer_used \in PeerUsedInputs(St) :
       \E g \in GradInputs(v) : AutogradHook(r, v, g, peer_used)
  \/ \E unused \in SUBSET Vars : PrepareForBackward(unused)
  \/ RunCallback
  \/ PrepareForward
  \/ \E iface \in {"inplace", "fresh"} : RegisterCommHook(iface)
  \/ ZeroGrad

Spec == Init /\ [][Next]_vars


\* ------------------------------------------------------------------------
\* sync_bucket_indices run by the ranks of a process group.
\* ------------------------------------------------------------------------
\* Number of ranks that take part.
SyncRanks == 3
\* Number of parameter indices their bucket lists cover.
SyncIndices == 3

\* The state of the Reducer and of its environment.
reducer_state ==
  <<replicas_, expect_sparse_gradients_, find_unused_parameters_, bucket_bytes_cap_,
    expect_autograd_hooks_, require_finalize_, next_bucket_, has_marked_unused_parameters_,
    unused_parameters_, buckets_, variable_locators_, local_used_maps_,
    local_used_maps_dev_, local_used_work_, local_used_maps_reduced_, has_rebuilt_bucket_,
    rebuilt_param_indices_, comm_hook_, grads, callbacks,
    iteration, launched, marked, detours, fired,
    grad_at_mark, enqueued, error>>

\* The orders in which the indices of a set can be recorded.
RECURSIVE Perms(_)
Perms(S) ==
  IF S = {} THEN {<<>>}
  ELSE UNION {{<<x>> \o p : p \in Perms(S \ {x})} : x \in S}

\* Bucket lists rank 0 may pass in: any order of the parameter indices cut
\* into any number of buckets.
BucketLists == UNION {Cuts(p) : p \in Perms(0 .. (SyncIndices - 1))}

\* Bucket lists of the other ranks: the indices in ascending or in descending
\* order, cut into any number of buckets.
PeerBucketLists ==
  Cuts([i \in 1 .. SyncIndices |-> i - 1]) \cup Cuts([i \in 1 .. SyncIndices |-> SyncIndices - i])

\* Every rank calls sync_bucket_indices with a bucket list of its own; all the
\* lists cover SyncIndices indices.
SyncInit ==
  \E given \in [1 .. SyncRanks -> BucketLists \cup PeerBucketLists] :
    /\ \A k \in 2 .. SyncRanks : given[k] \in PeerBucketLists
    /\
       StartsAs([initialize_buckets(Constructed(1, FALSE, 1024 * 1024), <<[i \in 1 .. NumVars |-> i - 1]>>)
                   EXCEPT !.call = [op |-> "sync_bucket_indices", given |-> given,
                                    bucket_indices |-> given, done |-> {}]])

\* The call of rank k returns (the two broadcasts are collective; rank 0 is
\* their root).
SyncRank(k) ==
  /\ call.op = "sync_bucket_indices"
  /\ k \notin call.done
  /\ call' = [call EXCEPT !.bucket_indices[k + 1] = sync_bucket_indices(call.given[k + 1], call.given[1]),
                          !.done = @ \cup {k}]
  /\ UNCHANGED reducer_state

SyncNext == \E k \in 0 .. (SyncRanks - 1) : SyncRank(k)

SyncSpec == SyncInit /\ [][SyncNext]_vars


\* ------------------------------------------------------------------------
\* compute_bucket_assignment_by_size run on its own, one iteration of its
\* loop over the tensors at a time.
\* ------------------------------------------------------------------------
\* Largest number of tensors in the list.
MaxTensors == 3

\* The (dtype, device) pairs of the tensors.
TensorKeys == <<<<"float32", "cpu">>, <<"float16", "cpu">>, <<"float32", "cuda:0">>>>

\* The tensors: 1 or 2 elements of each dtype on each device (2 to 8 bytes).
TensorInputs ==
  {[dtype |-> TensorKeys[k][1], device |-> TensorKeys[k][2], numel |-> n] :
     k \in 1 .. Len(TensorKeys), n \in {1, 2}}

\* bucket_size_limits, in bytes.
BudgetInputs == {<<4, 8>>, <<6>>}

\* expect_sparse_gradient for n tensors: not specified, or a flag for every
\* tensor with at most one of them set.
SparseInputs(n) ==
  {<<>>} \cup {[i \in 1 .. n |-> i = k] : k \in 0 .. n}

\* tensor_indices for n tensors: not specified, the indices in descending
\* order, or rotated by one.
IndexInputs(n) ==
  {<<>>, [i \in 1 .. n |-> n - i], [i \in 1 .. n |-> i % n]}

\* Iteration orders of the unordered_map of accumulators.
KeyOrders == {TensorKeys, [k \in 1 .. Len(TensorKeys) |-> TensorKeys[Len(TensorKeys) + 1 - k]]}

AssignInit ==
  \E n \in 1 .. MaxTensors :
    \E tensors \in [1 .. n -> TensorInputs], bucket_size_limits \in BudgetInputs,
       expect_sparse_gradient \in SparseInputs(n), tensor_indices \in IndexInputs(n),
       key_order \in KeyOrders :
      StartsAs([initialize_buckets(Constructed(1, FALSE, 1024 * 1024), <<[i \in 1 .. NumVars |-> i - 1]>>)
                  EXCEPT !.call = [op |-> "compute_bucket_assignment_by_size",
                                   tensors |-> tensors,
                                   bucket_size_limits |-> bucket_size_limits,
                                   expect_sparse_gradient |-> expect_sparse_gradient,
                                   tensor_indices |-> tensor_indices,
                                   key_order |-> key_order,
                                   i |-> 1,
                                   st |-> [result |-> <<>>, buckets |-> <<>>, iterators |-> <<>>],
                                   done |-> FALSE,
                                   result |-> <<>>]])

\* The index tensors[i] is recorded as (i is 1-based).
RecordedIndex(i) == IF call.tensor_indices = <<>> THEN i - 1 ELSE call.tensor_indices[i]

\* One iteration of "for (size_t i = 0; i < tensors.size(); i++)".
AssignTensor ==
  /\ call.op = "compute_bucket_assignment_by_size"
  /\ ~call.done
  /\ call.i <= Len(call.tensors)
  /\ call' = [call EXCEPT !.st = AssignStep(call.st, call.tensors[call.i], RecordedIndex(call.i),
                                            call.bucket_size_limits, call.expect_sparse_gradient),
                          !.i = @ + 1]
  /\ UNCHANGED reducer_state

\* The loop is over: the remaining buckets are added, the result is sorted if
\* no indices were given, and the function returns.
AssignReturn ==
  /\ call.op = "compute_bucket_assignment_by_size"
  /\ ~call.done
  /\ call.i > Len(call.tensors)
  /\ call' = [call EXCEPT !.done = TRUE,
                          !.result = compute_bucket_assignment_by_size(
                                       call.tensors, call.bucket_size_limits,
                                       call.expect_sparse_gradient, call.tensor_indices,
                                       call.key_order).result]
  /\ UNCHANGED reducer_state

AssignNext == AssignTensor \/ AssignReturn

AssignSpec == AssignInit /\ [][AssignNext]_vars

\* ------------------------------------------------------------------------
\* initialize_buckets run on its own on a Reducer whose parameters differ in
\* dtype and device and may expect sparse gradients.
\* ------------------------------------------------------------------------
\* The parameters of a replica: every variable is float32 or float16 on the
\* cpu, or float32 on a cuda device.
ParamInputs ==
  [1 .. NumVars -> {<<"float32", "cpu">>, <<"float16", "cpu">>, <<"float32", "cuda:0">>}]

\* bucket_indices proposed to initialize_buckets: lists of at most NumVars
\* parameter indices in any order, in which an index may be repeated or
\* missing, cut into buckets, and such a list with an empty bucket put in.
ProposedBuckets ==
  LET full == UNION {Cuts(q) : q \in UNION {[1 .. n -> Vars] : n \in 1 .. NumVars}}
  IN full \cup UNION {{SubSeq(bs, 1, k) \o <<<<>>>> \o SubSeq(bs, k + 1, Len(bs)) :
                         k \in 0 .. Len(bs)} : bs \in full}

InitBucketsInit ==
  \E replica_count \in 1 .. MaxReplicas, keys \in ParamInputs,
     sparse \in [1 .. NumVars -> BOOLEAN], bucket_indices \in ProposedBuckets :
    StartsAs([Constructed(replica_count, FALSE, 1024 * 1024) EXCEPT
                !.replicas_ = [k \in 1 .. replica_count |->
                                 [i \in 1 .. NumVars |->
                                    [dtype |-> keys[i][1], device |-> keys[i][2],
                                     numel |-> numel(i - 1)]]],
                !.expect_sparse_gradients_ = [k \in 1 .. replica_count |-> sparse],
                !.call = [op |-> "initialize_buckets", bucket_indices |-> bucket_indices,
                          done |-> FALSE]])

\* initialize_buckets(bucket_indices) runs to its return or to its exception.
InitializeBuckets ==
  /\ call.op = "initialize_buckets"
  /\ ~call.done
  /\ Install([initialize_buckets(St, call.bucket_indices) EXCEPT !.call.done = TRUE])

InitBucketsNext == InitializeBuckets

InitBucketsSpec == InitBucketsInit /\ [][InitBucketsNext]_vars

\* ------------------------------------------------------------------------
\* verify_replica0_across_processes run by the ranks of a process group.
\* ------------------------------------------------------------------------
\* The sizes and strides parameter p may have on a rank: a matrix (row major,
\* column major or transposed in shape) when p is even, a vector when p is
\* odd, so that parameter p has the same number of dimensions on every rank.
ShapeInputs(p) ==
  IF p % 2 = 0
    THEN {[sizes |-> <<2, 3>>, strides |-> <<3, 1>>],
          [sizes |-> <<2, 3>>, strides |-> <<1, 2>>],
          [sizes |-> <<3, 2>>, strides |-> <<2, 1>>]}
    ELSE {[sizes |-> <<4>>, strides |-> <<1>>], [sizes |-> <<5>>, strides |-> <<1>>]}

\* The parameter lists of replica 0 on one rank.
RankParams ==
  {q \in [1 .. NumVars -> UNION {ShapeInputs(p) : p \in Vars}] :
     \A i \in 1 .. NumVars : q[i] \in ShapeInputs(i - 1)}

VerifyInit ==
  \E params \in [1 .. SyncRanks -> RankParams] :
    StartsAs([initialize_buckets(Constructed(1, FALSE, 1024 * 1024), <<[i \in 1 .. NumVars |-> i - 1]>>)
                EXCEPT !.call = [op |-> "verify_replica0_across_processes", params |-> params,
                                 thrown |-> [k \in 1 .. SyncRanks |-> [kind |-> "none", p |-> 0]],
                                 done |-> {}]])

\* The call of rank k returns or throws (the broadcast is collective; rank 0
\* is its root).
VerifyRank(k) ==
  /\ call.op = "verify_replica0_across_processes"
  /\ k \notin call.done
  /\ call' = [call EXCEPT !.thrown[k + 1] =
                             verify_replica0_across_processes(call.params[k + 1], call.params[1]),
                          !.done = @ \cup {k}]
  /\ UNCHANGED reducer_state

VerifyNext == \E k \in 0 .. (SyncRanks - 1) : VerifyRank(k)

VerifySpec == VerifyInit /\ [][VerifyNext]_vars

\* ------------------------------------------------------------------------
\* The hooks of a Reducer from its construction to its destruction.  call
\* holds post_hooks (replica, variable -> the post hooks of the gradient
\* accumulator of that variable, in the order they were added), hooks_ (the
\* member: the key and the accumulator of every hook the Reducer added),
\* destroyed, thrown (the exception of the destructor) and dangling (a hook
\* ran on the Reducer after its destruction).  A hook is <<owner, r, v>> and
\* is its own key.
\* ------------------------------------------------------------------------
\* Node::del_post_hook removing the hook at the front of the list.
del_post_hook_front(post_hooks_, key) ==
  [found |-> post_hooks_ # <<>>,
   post_hooks_ |-> IF post_hooks_ = <<>> THEN <<>> ELSE Tail(post_hooks_)]

\* Node::del_post_hook(key): erases the hook with that key and tells whether
\* there was one.
del_post_hook(post_hooks_, key) ==
  [found |-> \E i \in 1 .. Len(post_hooks_) : post_hooks_[i] = key,
   post_hooks_ |-> SelectSeq(post_hooks_, LAMBDA h : h # key)]

\* The loop of the constructor that adds one post hook to the gradient
\* accumulator of every variable of every replica (add_post_hook appends).
RECURSIVE RegisterHooks(_, _, _, _)
RegisterHooks(c, replica_count, r, v) ==
  IF r >= replica_count THEN c
  ELSE IF v >= NumVars THEN RegisterHooks(c, replica_count, r + 1, 0)
  ELSE RegisterHooks([c EXCEPT !.post_hooks[r][v] = Append(@, <<"Reducer", r, v>>),
                               !.hooks_ = Append(@, [key |-> <<"Reducer", r, v>>, node |-> <<r, v>>])],
                     replica_count, r, v + 1)

\* Reducer::~Reducer from the k-th entry of hooks_ on.
RECURSIVE DestroyLoop(_, _)
DestroyLoop(c, k) ==
  IF k > Len(c.hooks_) THEN c
  ELSE LET r == c.hooks_[k].node[1]
           v == c.hooks_[k].node[2]
           deleted == del_post_hook(c.post_hooks[r][v], c.hooks_[k].key)
       IN IF ~deleted.found
            THEN [c EXCEPT !.thrown = "Reducer attempts to delete a non-existing hook."]
            ELSE DestroyLoop([c EXCEPT !.post_hooks[r][v] = deleted.post_hooks_], k + 1)

\* A Reducer is constructed on parameters some of whose gradient accumulators
\* already carry a post hook of another owner.
LifeInit ==
  \E replica_count \in 1 .. MaxReplicas, find_unused_parameters \in BOOLEAN :
    \E others \in SUBSET ((0 .. (replica_count - 1)) \X Vars) :
      StartsAs([initialize_buckets(Constructed(replica_count, find_unused_parameters, 1024 * 1024),
                                   <<[i \in 1 .. NumVars |-> i - 1]>>)
                  EXCEPT !.call = RegisterHooks(
                                    [op |-> "lifetime",
                                     post_hooks |-> [r \in 0 .. (replica_count - 1) |-> [v \in Vars |->
                                                       IF <<r, v>> \in others THEN <<<<"other", r, v>>>> ELSE <<>>]],
                                     hooks_ |-> <<>>, destroyed |-> FALSE, thrown |-> "none",
                                     dangling |-> FALSE],
                                    replica_count, 0, 0)])

\* The engine accumulated the gradient g of variable v of replica r and runs
\* the post hooks of the accumulator: a hook of the Reducer calls
\* autograd_hook on it, alive or not.
RunPostHooks(r, v, g) ==
  /\ call.op = "lifetime"
  /\ \E i \in 1 .. Len(call.post_hooks[r][v]) : call.post_hooks[r][v][i][1] = "Reducer"
  /\ IF call.destroyed
       THEN /\ call' = [call EXCEPT !.dangling = TRUE]
            /\ UNCHANGED reducer_state
       ELSE Install(autograd_hook(AccumulateGrad(St, r, v, g), r, v))

Destroy ==
  /\ call.op = "lifetime"
  /\ ~call.destroyed
  /\ call' = [DestroyLoop(call, 1) EXCEPT !.destroyed = TRUE]
  /\ UNCHANGED reducer_state

LifeNext ==
  \/ \E r \in DOMAIN grads, v \in Vars : \E g \in GradInputs(v) : RunPostHooks(r, v, g)
  \/ Destroy

LifeSpec == LifeInit /\ [][LifeNext]_vars

\* ------------------------------------------------------------------------
\* The threads that call into a Reducer of one replica: the application
\* thread and a worker thread of the autograd engine.  call holds mutex (the
\* thread that owns mutex_, or "none"), pc (the call each thread is in and how
\* far it got: "enter" before it locks mutex_, "locked" once it owns it),
\* actor (the thread that took the last step), rpc_context
\* (rpc_context_.context_ptr) and awaited (the works the last step blocked on
\* in Work::wait).
\* ------------------------------------------------------------------------
Threads == {"app", "engine"}

Idle == [op |-> "idle", stage |-> "idle", v |-> 0, g |-> Zero]

\* The hook path waiting for the reduction it launches.
AwaitedBy_hook_waits(op, s) == IF op = "autograd_hook" THEN {"bucket.work"} ELSE {}

\* The works a call started in state s waits for before it returns:
\* finalize_backward waits for the work or the future of every bucket and for
\* local_used_work_, rebuild_buckets for the two broadcasts of
\* sync_bucket_indices; the hook path and prepare_for_backward wait for none.
AwaitedBy(op, s) ==
  IF op = "finalize_backward"
    THEN IF s.expect_autograd_hooks_ /\ s.require_finalize_ /\ s.next_bucket_ = Len(s.buckets_)
           THEN (IF NoHook(s) /\ s.buckets_[1].work # 0 THEN {"bucket.work"} ELSE {})
                \cup (IF ~NoHook(s) /\ s.buckets_[1].future_work # 0 THEN {"bucket.future_work"} ELSE {})
                \cup (IF s.find_unused_parameters_ /\ ~Failed(finalize_backward(s))
                        THEN {"local_used_work_"} ELSE {})
           ELSE {}
  ELSE IF op = "prepare_forward"
    THEN IF s.rebuilt_param_indices_ # <<>> /\ Len(s.replicas_[1]) = Len(s.rebuilt_param_indices_)
           THEN {"broadcast"} ELSE {}
  ELSE {}

ThreadInit ==
  \E find_unused_parameters \in BOOLEAN, bucket_indices \in Layouts :
    StartsAs([initialize_buckets(Constructed(1, find_unused_parameters, 1024 * 1024), bucket_indices)
                EXCEPT !.call = [op |-> "threads", mutex |-> "none",
                                 pc |-> [t \in Threads |-> Idle], actor |-> "app",
                                 rpc_context |-> "null", awaited |-> {}]])

\* The engine accumulated the gradient g of variable v and runs the post hook
\* of the Reducer: the lambda stores the distributed autograd context of the
\* engine thread in rpc_context_ and calls autograd_hook.
HookEnters(v, g, ctx) ==
  /\ call.op = "threads"
  /\ call.pc["engine"].op = "idle"
  /\ expect_autograd_hooks_ /\ fired[0][v] = 0
  /\ call' = [call EXCEPT !.pc["engine"] = [op |-> "autograd_hook", stage |-> "enter", v |-> v, g |-> g],
                          !.rpc_context = ctx, !.actor = "engine", !.awaited = {}]
  /\ UNCHANGED reducer_state

\* The engine runs the callback queued by mark_variable_ready.
CallbackEnters ==
  /\ call.op = "threads"
  /\ call.pc["engine"].op = "idle"
  /\ callbacks > 0
  /\ call' = [call EXCEPT !.pc["engine"] = [Idle EXCEPT !.op = "finalize_backward", !.stage = "enter"],
                          !.actor = "engine", !.awaited = {}]
  /\ UNCHANGED reducer_state

\* The application thread calls prepare_forward or prepare_for_backward.
AppEnters(op) ==
  /\ call.op = "threads"
  /\ call.pc["app"].op = "idle"
  /\ op = "prepare_for_backward" => iteration * Len(replicas_) < MaxReplicaPasses
  /\ call' = [call EXCEPT !.pc["app"] = [Idle EXCEPT !.op = op, !.stage = "enter"],
                          !.actor = "app", !.awaited = {}]
  /\ UNCHANGED reducer_state

\* std::lock_guard<std::mutex> lock(mutex_) returns.
Lock(t) ==
  /\ call.op = "threads"
  /\ call.pc[t].stage = "enter"
  /\ call.mutex = "none"
  /\ call' = [call EXCEPT !.pc[t].stage = "locked", !.mutex = t, !.actor = t, !.awaited = {}]
  /\ UNCHANGED reducer_state

\* The thread that owns the mutex runs the call to its end and releases the
\* mutex (initialize_buckets, run by a rebuild, stores the context of the
\* application thread in rpc_context_).
Body(t) ==
  /\ call.op = "threads"
  /\ call.pc[t].stage = "locked"
  /\ LET op == call.pc[t].op
         v == call.pc[t].v
         awaited == AwaitedBy(op, IF op = "finalize_backward" THEN [St EXCEPT !.callbacks = @ - 1] ELSE St)
         done == [call EXCEPT !.pc[t] = Idle, !.mutex = "none", !.actor = t, !.awaited = awaited,
                              !.rpc_context = IF "broadcast" \in awaited THEN "null" ELSE @]
         hooked == AccumulateGrad(St, 0, v, call.pc[t].g)
         prepared == prepare_for_backward(St, <<>>)
         out == CASE op = "autograd_hook" ->
                       autograd_hook(IF expect_autograd_hooks_
                                       THEN [hooked EXCEPT !.fired[0][v] = @ + 1] ELSE hooked, 0, v)
                  [] op = "finalize_backward" -> finalize_backward([St EXCEPT !.callbacks = @ - 1])
                  [] op = "prepare_for_backward" ->
                       IF Failed(prepared) THEN prepared
                       ELSE NoHistory([prepared EXCEPT !.iteration = @ + 1])
                  [] op = "prepare_forward" -> rebuild_buckets(St)
     IN Install([out EXCEPT !.call = done])

\* The application thread calls register_comm_hook, which returns or throws
\* without locking mutex_.
RegisterCommHookCall(iface) ==
  /\ call.op = "threads"
  /\ call.pc["app"].op = "idle"
  /\ Install([register_comm_hook(St, iface) EXCEPT
                !.call = [call EXCEPT !.actor = "app", !.awaited = {}]])

ThreadNext ==
  \/ \E v \in Vars, ctx \in {"null", "context"} : \E g \in GradInputs(v) : HookEnters(v, g, ctx)
  \/ CallbackEnters
  \/ \E op \in {"prepare_forward", "prepare_for_backward"} : AppEnters(op)
  \/ \E t \in Threads : Lock(t)
  \/ \E t \in Threads : Body(t)
  \/ \E iface \in {"inplace", "fresh"} : RegisterCommHookCall(iface)

ThreadSpec == ThreadInit /\ [][ThreadNext]_vars

\* ------------------------------------------------------------------------
\* Properties.
\* ------------------------------------------------------------------------
\* Every variable of every replica has been marked ready exactly once in the
\* current backward pass.
AllMarkedOnce == \A r \in DOMAIN marked : \A v \in Vars : marked[r][v] = 1

InOrder(n) == [k \in 1 .. n |-> k - 1]

PreMarked(r, v) == \E k \in 1 .. Len(unused_parameters_) : unused_parameters_[k] = <<r, v>>

\* C1: the reductions started by mark_bucket_ready in a backward pass are those
\* of buckets 0, 1, 2, ... in index order, whatever the order of the hooks;
\* once every variable has been marked exactly once they are those of all the
\* buckets, buckets[0 .. n - 1].
C1_LaunchInIndexOrder ==
  /\ launched = InOrder(Len(launched))
  /\ expect_autograd_hooks_ => Len(launched) = next_bucket_
  /\ (expect_autograd_hooks_ /\ AllMarkedOnce) => launched = InOrder(Len(buckets_))

\* C1 witness: two buckets, the hook of the variable of bucket 1 fired before
\* the one of bucket 0, and both buckets were launched, 0 first.
C1_Witness ==
  /\ expect_autograd_hooks_ /\ AllMarkedOnce
  /\ Len(buckets_) = 2
  /\ rebuilt_param_indices_ = <<buckets_[2].variable_indices[1], buckets_[1].variable_indices[1]>>
  /\ launched = <<0, 1>>

\* C2: during a backward pass the reduction of a bucket is started at most
\* once and only when every variable of every replica in the bucket has been
\* marked ready.
C2_LaunchOnlyWhenAllMarked ==
  expect_autograd_hooks_ =>
    /\ \A j, k \in 1 .. Len(launched) : launched[j] = launched[k] => j = k
    /\ \A k \in 1 .. Len(launched) :
         \A r \in DOMAIN marked :
           \A i \in 1 .. Len(buckets_[launched[k] + 1].variable_indices) :
             marked[r][buckets_[launched[k] + 1].variable_indices[i]] >= 1

\* The gradient (sum over the replicas and the ranks of g) / WorldSize of
\* variable v, from the local gradients the replicas had when they were marked.
C3_Expected(v) ==
  DivW(Add(SumSeq([k \in 1 .. Len(replicas_) |-> grad_at_mark[k - 1][v].val]),
           Val(PeerGradSum(v))))

\* The hook of variable v fired once on every replica in this backward pass
\* and v was marked ready by it, once.
C3_Hooked(v) ==
  \A k \in DOMAIN marked : marked[k][v] = 1 /\ fired[k][v] = 1 /\ ~PreMarked(k, v)

\* C3: without a communication hook, when finalize_backward returns, the
\* gradient of every variable whose hooks fired with local gradient g is
\* (sum over the ranks of g) / WorldSize: scaled by 1 / WorldSize exactly once,
\* whether the gradient aliased its bucket view when the hook fired or not.
C3_GradIsMeanOverRanks ==
  [][(callbacks' = callbacks - 1 /\ error' = "none" /\ comm_hook_ = "none") =>
       \A v \in Vars : C3_Hooked(v) =>
         \A r \in DOMAIN grads : GradValue(St, r, v)' = C3_Expected(v)]_vars

\* C3 witness: a finalized backward pass in which one gradient aliased its
\* bucket view when its hook fired and another did not, and both hold the mean.
C3_Witness ==
  /\ ~expect_autograd_hooks_ /\ ~require_finalize_ /\ enqueued = 1 /\ callbacks = 0
  /\ error = "none" /\ comm_hook_ = "none"
  /\ \E v, w \in Vars :
       /\ C3_Hooked(v) /\ C3_Hooked(w)
       /\ grad_at_mark[0][v].kind = "view" /\ grad_at_mark[0][w].kind = "own"
       /\ GradValue(St, 0, v) = C3_Expected(v) /\ GradValue(St, 0, w) = C3_Expected(w)
       /\ C3_Expected(v).n > 0 /\ C3_Expected(w).n > 0

\* The members of the Reducer (all the variables but the history).
members ==
  <<replicas_, expect_sparse_gradients_, find_unused_parameters_, bucket_bytes_cap_,
    expect_autograd_hooks_, require_finalize_, next_bucket_, has_marked_unused_parameters_,
    unused_parameters_, buckets_, variable_locators_, local_used_maps_,
    local_used_maps_dev_, local_used_work_, local_used_maps_reduced_, has_rebuilt_bucket_,
    rebuilt_param_indices_, comm_hook_>>

\* C4: prepare_for_backward called while require_finalize_ is true fails and
\* leaves the Reducer (and the gradients) unchanged.
C4_PrepareFailsUnchanged ==
  [][\A unused \in SUBSET Vars :
       (require_finalize_ /\ PrepareForBackward(unused)) =>
         /\ error' = PriorReductionCheck(St) /\ error' # "none"
         /\ UNCHANGED <<members, grads, callbacks, iteration>>]_vars

\* C4 witness: the call has just failed in a backward pass some variable of
\* which was marked and which is not finalized.
C4_Witness ==
  /\ error = "Expected to have finished reduction in the prior iteration before starting a new one."
  /\ require_finalize_ /\ expect_autograd_hooks_
  /\ \E r \in DOMAIN marked : \E v \in Vars : marked[r][v] = 1
  /\ next_bucket_ < Len(buckets_)

\* C5: with find_unused_parameters disabled no variable is marked ready a
\* second time in one backward pass: the second mark_variable_ready of a
\* (replica, variable) fails and is not counted.
C5_NoSecondMarking ==
  ~find_unused_parameters_ => \A r \in DOMAIN marked : \A v \in Vars : marked[r][v] <= 1

\* The pending counters of the buckets and of their replicas.
PendingCounters ==
  [b \in 1 .. Len(buckets_) |->
     <<buckets_[b].pending,
       [k \in 1 .. Len(buckets_[b].replicas) |-> buckets_[b].replicas[k].pending]>>]

\* The step is a hook of variable v of replica r that fires in a backward pass
\* and goes straight to mark_variable_ready(r, v) (the unused parameters are
\* marked already, or are not searched for), with replica.pending == 0.
C6_MarksCompleteReplica(r, v) ==
  /\ fired'[r][v] = fired[r][v] + 1
  /\ expect_autograd_hooks_
  /\ has_marked_unused_parameters_ \/ ~find_unused_parameters_
  /\ ReplicaOf(St, r, v).pending = 0

\* C6 as stated: mark_variable_ready called when replica.pending == 0 fails
\* unless has_marked_unused_parameters_ is true and the variable is one the
\* Reducer pre-marked as unused, in which case it is accepted.
C6_FailsUnlessPreMarked ==
  [][\A r \in DOMAIN fired : \A v \in Vars :
       C6_MarksCompleteReplica(r, v) =>
         (error' = "none" <=> (has_marked_unused_parameters_ /\ PreMarked(r, v)))]_vars

\* C6 amended: mark_variable_ready called when replica.pending == 0 always
\* fails, also for a pre-marked unused variable; has_marked_unused_parameters_
\* only selects the message.  Nothing is counted: the marks, the pending
\* counters and the launches are unchanged.
C6_AlwaysFails ==
  [][\A r \in DOMAIN fired : \A v \in Vars :
       C6_MarksCompleteReplica(r, v) =>
         /\ error' = MarkedTwiceCheck(St, ReplicaOf(St, r, v)) /\ error' # "none"
         /\ has_marked_unused_parameters_ <=> error' = "Expected to mark a variable ready only once."
         /\ require_finalize_'
         /\ UNCHANGED <<marked, PendingCounters, next_bucket_, launched, callbacks, enqueued>>]_vars

\* C6 witness: the hook of a pre-marked unused variable fired after its
\* bucket replica was complete, and its marking failed.
C6_Witness ==
  /\ error = "Expected to mark a variable ready only once."
  /\ has_marked_unused_parameters_ /\ expect_autograd_hooks_
  /\ \E r \in DOMAIN fired : \E v \in Vars :
       PreMarked(r, v) /\ fired[r][v] = 1 /\ marked[r][v] = 1 /\ ReplicaOf(St, r, v).pending = 0

\* C7: in a backward pass the finalize callback is queued once, by the
\* mark_variable_ready that launches the last bucket: never before every
\* bucket is launched and never a second time.
C7_CallbackQueuedOnce ==
  [][/\ enqueued' > enqueued =>
          /\ enqueued = 0 /\ enqueued' = 1 /\ callbacks' = callbacks + 1
          /\ next_bucket_ < Len(buckets_) /\ next_bucket_' = Len(buckets_')
          /\ \E r \in DOMAIN marked : \E v \in Vars : marked'[r][v] > marked[r][v]
     /\ callbacks' > callbacks => enqueued' > enqueued
     /\ expect_autograd_hooks_' => (enqueued' = 1 <=> next_bucket_' = Len(buckets_'))
     /\ expect_autograd_hooks_' => enqueued' <= 1]_vars

\* C7 witness: two buckets are launched and the callback is queued, once.
C7_Witness ==
  /\ expect_autograd_hooks_ /\ Len(buckets_) = 2 /\ next_bucket_ = 2
  /\ enqueued = 1 /\ callbacks = 1 /\ AllMarkedOnce

\* C8: whenever the queued callback runs finalize_backward, expect_autograd_hooks_
\* and require_finalize_ are true and next_bucket_ == buckets_.size(), whatever
\* calls of prepare_for_backward, prepare_forward and hooks came in between;
\* when it returns both flags are false.
C8_FinalizePreconditions ==
  [][callbacks' = callbacks - 1 =>
       /\ expect_autograd_hooks_ /\ require_finalize_ /\ next_bucket_ = Len(buckets_)
       /\ ~expect_autograd_hooks_' /\ ~require_finalize_']_vars

\* C8 witness: the callback of the first backward pass has run, after a
\* prepare_forward that came during the pass: its rebuild_buckets set
\* has_rebuilt_bucket_ and was refused by initialize_buckets (the buckets
\* still hold the counters of the pass).
C8_Witness ==
  /\ ~expect_autograd_hooks_ /\ ~require_finalize_ /\ enqueued = 1 /\ callbacks = 0
  /\ next_bucket_ = Len(buckets_) /\ AllMarkedOnce
  /\ error = "none" /\ iteration = 1
  /\ has_rebuilt_bucket_ /\ \A b \in 1 .. Len(buckets_) : buckets_[b].pending = 0

\* C9: during a backward pass the pending count of a bucket is the number of
\* its replicas whose pending count is positive.
C9_BucketPendingCountsReplicas ==
  expect_autograd_hooks_ =>
    \A b \in 1 .. Len(buckets_) :
      buckets_[b].pending =
        Cardinality({k \in 1 .. Len(buckets_[b].replicas) : buckets_[b].replicas[k].pending > 0})

\* C9 witness: of the two replicas of a bucket one is complete and the other
\* is not.
C9_Witness ==
  /\ expect_autograd_hooks_ /\ Len(replicas_) = 2
  /\ \E b \in 1 .. Len(buckets_) :
       /\ buckets_[b].pending = 1
       /\ buckets_[b].replicas[1].pending = 0 /\ buckets_[b].replicas[2].pending > 0

PendingBuckets == {b \in 1 .. Len(buckets_) : buckets_[b].pending > 0}

\* C10 as stated: during a backward pass the number of buckets with pending > 0
\* is buckets_.size() - next_bucket_.
C10_PendingBucketsAreTheUnlaunched ==
  expect_autograd_hooks_ => Cardinality(PendingBuckets) = Len(buckets_) - next_bucket_

\* C10 amended: during a backward pass the launched buckets (index below
\* next_bucket_) have pending == 0 and the bucket at next_bucket_, if any, has
\* pending > 0; a later bucket may be complete and not launched, so the number
\* of buckets with pending > 0 is at most buckets_.size() - next_bucket_.
C10_LaunchedPrefixIsComplete ==
  expect_autograd_hooks_ =>
    /\ next_bucket_ <= Len(buckets_)
    /\ \A b \in 1 .. next_bucket_ : buckets_[b].pending = 0
    /\ next_bucket_ < Len(buckets_) => buckets_[next_bucket_ + 1].pending > 0
    /\ Cardinality(PendingBuckets) <= Len(buckets_) - next_bucket_

\* C10 witness: bucket 1 is complete before bucket 0 and is not launched.
C10_Witness ==
  /\ expect_autograd_hooks_ /\ Len(buckets_) = 2 /\ next_bucket_ = 0
  /\ buckets_[2].pending = 0 /\ buckets_[1].pending > 0

\* C11: in every reachable state each bucket view of every dense bucket
\* replica aliases the storage of that replica's contents tensor, the tensor
\* mark_bucket_ready hands to allreduce or runHook at the next launch; also
\* after finalize_backward rebuilt the views from a communication hook's
\* result, across the following iterations.
C11_ViewsAliasContents ==
  \A b \in 1 .. Len(buckets_) :
    ~buckets_[b].expect_sparse_gradient =>
      \A k \in 1 .. Len(buckets_[b].replicas) : buckets_[b].replicas[k].views_on = "contents"

\* C12: with find_unused_parameters enabled, once the first hook of a backward
\* pass has fired every parameter prepare_for_backward found unused has been
\* marked ready, and its bucket view was zeroed when it was marked, whether
\* its gradient was undefined or defined at that time.
C12_UnusedPreMarkedAndZeroed ==
  (find_unused_parameters_ /\ expect_autograd_hooks_ /\ has_marked_unused_parameters_) =>
    \A k \in 1 .. Len(unused_parameters_) :
      LET r == unused_parameters_[k][1]
          v == unused_parameters_[k][2]
      IN /\ marked[r][v] >= 1
         /\ fired[r][v] = 0 => grad_at_mark[r][v].view = Zero

\* The usage-map entry of variable v summed over all ranks and replicas is 0
\* (the sum is what the all-reduce started with the last bucket left in
\* local_used_maps_dev_).
GloballyUnused(v) == local_used_maps_dev_[0][v] = 0

\* C13: with find_unused_parameters enabled, when finalize_backward returns, a
\* parameter whose usage-map entry summed over all ranks and replicas is 0 has
\* the gradient it had before the backward pass (same definedness, same
\* tensor, same value), and a globally used parameter whose gradient was
\* undefined has its gradient set to alias its bucket view.
C13_GloballyUnusedUntouched ==
  [][(callbacks' = callbacks - 1 /\ error' = "none" /\ find_unused_parameters_) =>
       \A r \in DOMAIN grads : \A v \in Vars :
         /\ (GloballyUnused(v) /\ marked[r][v] = 1 /\ fired[r][v] = 0) =>
              /\ grads'[r][v].kind = grad_at_mark[r][v].kind
              /\ grads'[r][v].kind # "undef" => GradValue(St, r, v)' = grad_at_mark[r][v].val
         /\ (~GloballyUnused(v) /\ grads[r][v].kind = "undef") =>
              grads'[r][v] = AliasOfView(variable_locators_[v].bucket_index,
                                         variable_locators_[v].intra_bucket_index + 1)]_vars

\* C14: ranks whose bucket lists cover the same number of parameter indices,
\* split into any numbers of buckets of any sizes, all end sync_bucket_indices
\* with the bucket list rank 0 passed in: the same bucket count, bucket sizes
\* and indices in order.
C14_RanksEndWithRootsBuckets ==
  call.op = "sync_bucket_indices" =>
    \A k \in call.done : call.bucket_indices[k + 1] = call.given[1]

\* C14 witness: all ranks returned; one had fewer buckets than rank 0 and one
\* had more, with other indices first.
C14_Witness ==
  /\ call.op = "sync_bucket_indices"
  /\ call.done = 0 .. (SyncRanks - 1)
  /\ \E j, k \in 2 .. SyncRanks :
       /\ Len(call.given[j]) < Len(call.given[1])
       /\ Len(call.given[k]) > Len(call.given[1])
       /\ call.given[k][1][1] # call.given[1][1][1]
  /\ \A k \in 1 .. SyncRanks : call.bucket_indices[k] = call.given[1]

\* The variable_indices of the buckets, in bucket order.
Layout == [b \in 1 .. Len(buckets_) |-> buckets_[b].variable_indices]

\* compute_bucket_assignment_by_size for the parameters of replica 0 taken in
\* the order s, recorded under the indices s, with the two budgets of
\* rebuild_buckets.
C15_Assignment(s) ==
  compute_bucket_assignment_by_size(
    [k \in 1 .. Len(s) |-> replicas_[1][s[k] + 1]],
    <<kDefaultFirstBucketBytes, bucket_bytes_cap_>>,
    expect_sparse_gradients_[1], s, <<BucketKey(replicas_[1][1])>>).result

\* C15: with find_unused_parameters false and no rebuild done yet, every hook
\* of replica 0 that fires in a backward pass is recorded at the end of
\* rebuilt_param_indices_ (and nothing else is), so that the vector is the
\* arrival order s; the layout rebuild_buckets installs is
\* compute_bucket_assignment_by_size(parameters in order s,
\* [kDefaultFirstBucketBytes, bucket_bytes_cap], sparse flags of replica 0, s)
\* in its emission order, and a rank that computed another bucket list ends
\* sync_bucket_indices with the layout of rank 0.
C15_RebuildInstallsArrivalOrderLayout ==
  [][/\ (~find_unused_parameters_ /\ ~has_rebuilt_bucket_) =>
          \/ \E v \in Vars : /\ fired'[0][v] = fired[0][v] + 1
                             /\ rebuilt_param_indices_' = Append(rebuilt_param_indices_, v)
          \/ /\ \A v \in Vars : fired'[0][v] # fired[0][v] + 1
             /\ rebuilt_param_indices_' \in {rebuilt_param_indices_, <<>>}
     /\ (~has_rebuilt_bucket_ /\ has_rebuilt_bucket_' /\ error' = "none") =>
          /\ ~find_unused_parameters_
          /\ Layout' = C15_Assignment(rebuilt_param_indices_)
          /\ \A mine \in UNION {Cuts(p) : p \in Perms(Vars)} :
               sync_bucket_indices(mine, C15_Assignment(rebuilt_param_indices_)) = Layout']_vars

\* C15 witness: the hook of variable 1 fired before the hook of variable 0 in
\* the first backward pass, and the rebuild installed the buckets [1], [0].
C15_Witness ==
  /\ has_rebuilt_bucket_ /\ error = "none" /\ ~find_unused_parameters_
  /\ rebuilt_param_indices_ = <<>>
  /\ Layout = <<<<1>>, <<0>>>>
  /\ variable_locators_[1].bucket_index = 0 /\ variable_locators_[0].bucket_index = 1

\* C16: rebuild_buckets re-initializes buckets_ at most once in the life of a
\* Reducer.  has_rebuilt_bucket_ never goes back to false; once it is true no
\* hook records its arrival (rebuilt_param_indices_ stays empty), the bucket
\* layout and variable_locators_ never change again, and prepare_forward
\* returns without changing anything; the layout and the locators change only in the step
\* that sets has_rebuilt_bucket_.
C16_RebuildsAtMostOnce ==
  [][/\ has_rebuilt_bucket_ =>
          /\ has_rebuilt_bucket_'
          /\ rebuilt_param_indices_ = <<>> /\ rebuilt_param_indices_' = <<>>
          /\ Layout' = Layout /\ variable_locators_' = variable_locators_
          /\ PrepareForward =>
               /\ error' = "none"
               /\ UNCHANGED <<members, grads, callbacks, iteration, launched, marked, fired,
                              grad_at_mark, enqueued>>
     /\ (Layout' # Layout \/ variable_locators_' # variable_locators_) =>
          ~has_rebuilt_bucket_ /\ has_rebuilt_bucket_']_vars

\* C16 witness: in the backward pass after the rebuild the hooks of replica 0
\* have fired and none was recorded.
C16_Witness ==
  /\ has_rebuilt_bucket_ /\ iteration = 2 /\ expect_autograd_hooks_
  /\ Layout = <<<<1>>, <<0>>>>
  /\ \A v \in Vars : fired[0][v] = 1
  /\ rebuilt_param_indices_ = <<>>

\* The function has returned.
Returned == call.op = "compute_bucket_assignment_by_size" /\ call.done

\* The tensor at position i (1-based) expects a sparse gradient.
SparseFlagged(i) ==
  call.expect_sparse_gradient # <<>> /\ call.expect_sparse_gradient[RecordedIndex(i) + 1]

\* The position of the tensor recorded as index x.
PositionOf(x) == CHOOSE i \in 1 .. Len(call.tensors) : RecordedIndex(i) = x

\* C17: for a non-empty tensor list (recorded under distinct indices) and a
\* budget sequence of length at least 1, the buckets returned by
\* compute_bucket_assignment_by_size partition the recorded indices (every
\* index is in exactly one bucket, once), every bucket is non-empty, a tensor
\* that expects a sparse gradient is alone in its bucket, and the tensors of a
\* bucket share their dtype and their device.
C17_ResultIsPartition ==
  Returned =>
    LET all == Flatten(call.result)
    IN /\ Len(all) = Len(call.tensors)
       /\ \A i \in 1 .. Len(call.tensors) :
            Cardinality({k \in 1 .. Len(all) : all[k] = RecordedIndex(i)}) = 1
       /\ \A b \in 1 .. Len(call.result) :
            /\ call.result[b] # <<>>
            /\ \A j \in 1 .. Len(call.result[b]) :
                 /\ SparseFlagged(PositionOf(call.result[b][j])) => Len(call.result[b]) = 1
                 /\ BucketKey(call.tensors[PositionOf(call.result[b][j])])
                      = BucketKey(call.tensors[PositionOf(call.result[b][1])])

\* C17 witness: three tensors given under indices of their own, two of one
\* dtype and device which share a bucket, one that expects a sparse gradient.
C17_Witness ==
  /\ Returned
  /\ Len(call.tensors) = 3 /\ call.tensor_indices # <<>>
  /\ \E b, c \in 1 .. Len(call.result) :
       /\ Len(call.result[b]) = 2
       /\ Len(call.result[c]) = 1 /\ SparseFlagged(PositionOf(call.result[c][1]))

\* The accumulator and the budget pointer (1-based) of the (dtype, device)
\* group key in the loop state st.
Accumulator(st, key) ==
  IF key \in DOMAIN st.buckets THEN st.buckets[key] ELSE [indices |-> <<>>, size |-> 0]

BudgetPointer(st, key) == IF key \in DOMAIN st.iterators THEN st.iterators[key] ELSE 1

AllKeys == {TensorKeys[k] : k \in 1 .. Len(TensorKeys)}

\* C18: in compute_bucket_assignment_by_size every (dtype, device) group has
\* an accumulator and a budget pointer of its own, the pointer starting at the
\* first budget.  An iteration of the loop for a tensor that expects no sparse
\* gradient adds the tensor to the accumulator of its group and touches no
\* other group; the accumulator is emitted exactly when its byte size
\* (numel * element_size added) is then at least the budget under the group's
\* pointer, and the pointer then moves on by one unless it is at the last
\* budget.  So an accumulator that stays is smaller than the budget under its
\* pointer, and those left non-empty at the end are emitted after the loop.
C18_GroupAccumulators ==
  [][/\ AssignTensor =>
          LET tensor == call.tensors[call.i]
              key == BucketKey(tensor)
              limits == call.bucket_size_limits
              before == Accumulator(call.st, key)
              size == before.size + tensor.numel * element_size(tensor.dtype)
              pointer == BudgetPointer(call.st, key)
              after == call.st'
          IN /\ \A k \in AllKeys \ {key} :
                  /\ Accumulator(after, k) = Accumulator(call.st, k)
                  /\ BudgetPointer(after, k) = BudgetPointer(call.st, k)
             /\ SparseFlagged(call.i) =>
                  /\ Accumulator(after, key) = Accumulator(call.st, key)
                  /\ BudgetPointer(after, key) = BudgetPointer(call.st, key)
                  /\ after.result = Append(call.st.result, <<RecordedIndex(call.i)>>)
             /\ (~SparseFlagged(call.i) /\ size >= limits[pointer]) =>
                  /\ after.result = Append(call.st.result, Append(before.indices, RecordedIndex(call.i)))
                  /\ Accumulator(after, key) = [indices |-> <<>>, size |-> 0]
                  /\ BudgetPointer(after, key) = IF pointer < Len(limits) THEN pointer + 1 ELSE pointer
             /\ (~SparseFlagged(call.i) /\ size < limits[pointer]) =>
                  /\ after.result = call.st.result
                  /\ Accumulator(after, key) = [indices |-> Append(before.indices, RecordedIndex(call.i)),
                                                size |-> size]
                  /\ BudgetPointer(after, key) = pointer
             /\ \A k \in AllKeys :
                  Accumulator(after, k).size < call.bucket_size_limits[BudgetPointer(after, k)]
     /\ AssignReturn =>
          \A k \in AllKeys :
            Accumulator(call.st, k).indices # <<>> =>
              \E b \in 1 .. Len(call.result') : call.result'[b] = Accumulator(call.st, k).indices]_vars

\* C18 witness: the function returned with the pointers of two groups at
\* different budgets, and an accumulator was left to be emitted at the end.
C18_Witness ==
  /\ Returned
  /\ Len(call.bucket_size_limits) = 2
  /\ \E j, k \in AllKeys :
       /\ BudgetPointer(call.st, j) = 2 /\ k \in DOMAIN call.st.iterators /\ BudgetPointer(call.st, k) = 1
       /\ Accumulator(call.st, k).indices # <<>>
       /\ Accumulator(call.st, k).size < call.bucket_size_limits[1]

\* C19: called without explicit indices, compute_bucket_assignment_by_size
\* returns the buckets in strictly ascending order of the smallest index they
\* contain, so bucket 0 contains index 0; also for tensors of several dtypes
\* and devices and for tensors that expect a sparse gradient.
C19_SortedByMinIndex ==
  (Returned /\ call.tensor_indices = <<>>) =>
    /\ \A b \in 1 .. Len(call.result) - 1 : MinOf(call.result[b]) < MinOf(call.result[b + 1])
    /\ \E j \in 1 .. Len(call.result[1]) : call.result[1][j] = 0

\* C19 witness: no indices were given and the buckets were emitted in another
\* order than they are returned in: a bucket emitted in the loop holds a
\* larger index than the smallest index left in an accumulator.
C19_Witness ==
  /\ Returned /\ call.tensor_indices = <<>>
  /\ Len(call.st.result) >= 1 /\ Len(call.result) >= 3
  /\ \E k \in AllKeys :
       /\ Accumulator(call.st, k).indices # <<>>
       /\ MinOf(Accumulator(call.st, k).indices) < MinOf(call.st.result[1])
  /\ \E b \in 1 .. Len(call.result) : Len(call.result[b]) = 1 /\ SparseFlagged(call.result[b][1] + 1)

\* The bucket layout is a partition of the parameter indices.
LegalLayout ==
  /\ Len(Flatten(Layout)) = NumVars
  /\ \A p \in Vars : \E k \in 1 .. NumVars : Flatten(Layout)[k] = p

\* C20: when the bucket_indices given to initialize_buckets are a partition of
\* the parameter indices, the locator of every parameter p names a bucket and a
\* slot whose variable index is p, and on every replica of a dense bucket the
\* lengths are the numels of its variables, the offsets their prefix sums and
\* the sum of the lengths the numel of contents; the replicas of a bucket
\* agree on their variables, offsets and lengths.
C20_LocatorsResolveAndOffsetsAreSums ==
  LegalLayout =>
    /\ \A p \in Vars :
         LET b == variable_locators_[p].bucket_index
             i == variable_locators_[p].intra_bucket_index
         IN /\ b < Len(buckets_)
            /\ i < Len(buckets_[b + 1].variable_indices)
            /\ buckets_[b + 1].variable_indices[i + 1] = p
    /\ \A b \in 1 .. Len(buckets_) :
         /\ Len(buckets_[b].replicas) = Len(replicas_)
         /\ ~buckets_[b].expect_sparse_gradient =>
              \A k \in 1 .. Len(replicas_) :
                LET replica == buckets_[b].replicas[k]
                    n == Len(buckets_[b].variable_indices)
                IN /\ replica.variables = buckets_[b].variable_indices
                   /\ Len(replica.lengths) = n /\ Len(replica.offsets) = n
                   /\ \A i \in 1 .. n :
                        /\ replica.lengths[i] = replicas_[k][replica.variables[i] + 1].numel
                        /\ replica.offsets[i] = SumInt(SubSeq(replica.lengths, 1, i - 1))
                   /\ SumInt(replica.lengths) = replica.contents_numel
                   /\ replica.offsets = buckets_[b].replicas[1].offsets
                   /\ replica.lengths = buckets_[b].replicas[1].lengths

\* C20 witness: two replicas whose buckets were rebuilt as [1], [0] from the
\* order the hooks arrived in, and a Reducer with one bucket of two variables.
C20_Witness ==
  /\ LegalLayout
  /\ \/ /\ Len(replicas_) = 2 /\ has_rebuilt_bucket_ /\ error = "none"
        /\ Layout = <<<<1>>, <<0>>>>
        /\ variable_locators_[1] = [bucket_index |-> 0, intra_bucket_index |-> 0]
        /\ variable_locators_[0] = [bucket_index |-> 1, intra_bucket_index |-> 0]
     \/ /\ Len(replicas_) = 2 /\ Layout = <<<<0, 1>>>>
        /\ buckets_[1].replicas[2].offsets = <<0, numel(0)>>
        /\ buckets_[1].replicas[2].contents_numel = numel(0) + numel(1)
        /\ variable_locators_[1] = [bucket_index |-> 0, intra_bucket_index |-> 1]

\* The variables at the indices xs of replica k share one dtype and one device.
OneDtypeAndDevice(k, xs) ==
  \A i, j \in 1 .. Len(xs) :
    /\ replicas_[k][xs[i] + 1].dtype = replicas_[k][xs[j] + 1].dtype
    /\ replicas_[k][xs[i] + 1].device = replicas_[k][xs[j] + 1].device

ExpectsSparse(x) == expect_sparse_gradients_[1][x + 1]

\* C21: when initialize_buckets returns, the buckets are the proposed ones and
\* each holds exactly one variable that expects a sparse gradient or only
\* variables with dense gradients of one dtype on one device; when a proposed
\* bucket is empty, has several variables one of which expects a sparse
\* gradient, or mixes dtypes or devices, initialize_buckets fails.
C21_BucketsAreSparseAloneOrUniform ==
  (call.op = "initialize_buckets" /\ call.done) =>
    /\ error = "none" =>
         /\ Layout = call.bucket_indices
         /\ \A b \in 1 .. Len(buckets_) :
              LET xs == buckets_[b].variable_indices
              IN \/ /\ Len(xs) = 1 /\ ExpectsSparse(xs[1])
                    /\ buckets_[b].expect_sparse_gradient
                 \/ /\ Len(xs) >= 1 /\ \A i \in 1 .. Len(xs) : ~ExpectsSparse(xs[i])
                    /\ ~buckets_[b].expect_sparse_gradient
                    /\ \A k \in 1 .. Len(replicas_) : OneDtypeAndDevice(k, xs)
    /\ (\E b \in 1 .. Len(call.bucket_indices) :
          LET xs == call.bucket_indices[b]
          IN \/ xs = <<>>
             \/ Len(xs) > 1 /\ \E i \in 1 .. Len(xs) : ExpectsSparse(xs[i])
             \/ \E i \in 1 .. Len(xs) : ~ExpectsSparse(xs[i]) /\ ~OneDtypeAndDevice(1, xs))
         => error # "none"

\* C21 witness: initialize_buckets returned with a bucket of one variable that
\* expects a sparse gradient and a bucket of a dense float16 variable.
C21_Witness ==
  /\ call.op = "initialize_buckets" /\ call.done /\ error = "none"
  /\ Len(buckets_) = 2
  /\ buckets_[1].expect_sparse_gradient /\ ~buckets_[2].expect_sparse_gradient
  /\ replicas_[1][buckets_[2].variable_indices[1] + 1].dtype = "float16"

\* Parameter p of rank k differs from rank 0's in its sizes or its strides.
DiffersFromRoot(k, p) == call.params[k + 1][p + 1] # call.params[1][p + 1]

\* C22: among ranks whose parameters have the same numbers of dimensions, a
\* rank fails in verify_replica0_across_processes exactly when one of its
\* parameters differs from rank 0's in its sizes or strides, the error names
\* the lowest index of such a parameter, and rank 0 never fails.
C22_FailsAtLowestDifference ==
  call.op = "verify_replica0_across_processes" =>
    \A k \in call.done :
      LET thrown == call.thrown[k + 1]
      IN /\ k = 0 => thrown.kind = "none"
         /\ thrown.kind # "none" <=> \E p \in Vars : DiffersFromRoot(k, p)
         /\ thrown.kind # "none" =>
              /\ DiffersFromRoot(k, thrown.p)
              /\ \A p \in Vars : DiffersFromRoot(k, p) => thrown.p <= p
              /\ thrown.kind = "sizes" <=>
                   call.params[k + 1][thrown.p + 1].sizes # call.params[1][thrown.p + 1].sizes

\* C22 witness: rank 1 differs from rank 0 in the strides of parameter 0 and
\* in the sizes of parameter 1 and failed naming the strides of parameter 0,
\* and rank 0 returned.
C22_Witness ==
  /\ call.op = "verify_replica0_across_processes"
  /\ call.done = {0, 1}
  /\ call.thrown[1].kind = "none"
  /\ call.thrown[2] = [kind |-> "strides", p |-> 0]
  /\ DiffersFromRoot(1, 1)

\* The number of hooks of the Reducer on the accumulator of variable v of
\* replica r.
HooksOfReducer(r, v) ==
  Cardinality({i \in 1 .. Len(call.post_hooks[r][v]) : call.post_hooks[r][v][i][1] = "Reducer"})

\* C23: a constructed Reducer has exactly one post hook on the gradient
\* accumulator of every variable of every replica; once its destructor has run
\* no accumulator carries a hook of it, the destructor did not throw, and no
\* hook has run on the destroyed Reducer.
C23_HooksRegisteredOnceAndRemoved ==
  call.op = "lifetime" =>
    /\ ~call.destroyed =>
         /\ Len(call.hooks_) = Len(replicas_) * NumVars
         /\ \A r \in DOMAIN grads, v \in Vars : HooksOfReducer(r, v) = 1
    /\ call.destroyed =>
         /\ call.thrown = "none"
         /\ ~call.dangling
         /\ \A r \in DOMAIN grads, v \in Vars : HooksOfReducer(r, v) = 0

\* C23 witness: the Reducer of two replicas was destroyed after the hook of
\* variable 0 of replica 1 had run, and a hook of another owner is still on
\* that accumulator.
C23_Witness ==
  /\ call.op = "lifetime" /\ call.destroyed
  /\ Len(replicas_) = 2
  /\ grads[1][0].kind # "undef"
  /\ call.post_hooks[1][0] = <<<<"other", 1, 0>>>>

\* C24: every step of a hook firing, prepare_for_backward, prepare_forward,
\* register_comm_hook or the finalize callback that changes a member of the
\* Reducer (comm_hook_ and the stored distributed autograd context included)
\* is taken by a thread that owns the mutex of the Reducer.
C24_MutationsHoldTheMutex ==
  [][(members' # members \/ call'.rpc_context # call.rpc_context) =>
       call.mutex = call'.actor]_vars

C26_RegistersOnceSingleReplica ==
  [][/\ \A iface \in {"inplace", "fresh"} :
          RegisterCommHook(iface) =>
            IF comm_hook_ = "none" /\ Len(replicas_) = 1
              THEN error' = "none" /\ comm_hook_' = iface
              ELSE error' # "none" /\ UNCHANGED members
     /\ comm_hook_' # comm_hook_ => comm_hook_ = "none" /\ Len(replicas_) = 1]_vars

\* C26 witness: a hook is registered and a second registration has failed.
C26_Witness ==
  /\ call.op = "none"
  /\ comm_hook_ # "none"
  /\ error = "register_comm_hook can only be called once."

\* The buckets whose reduction the step started.
NewlyLaunched == {launched'[k] : k \in (Len(launched) + 1) .. Len(launched')}

\* C27: while a communication hook is registered, a variable that is marked
\* ready enters its bucket with the value its grad had (nothing is divided by
\* the world size), and the reduction of a bucket is started by runHook, at
\* most once in a backward pass, and never by an allreduce of the process
\* group.
C27_HookReplacesDivisionAndAllreduce ==
  [][(comm_hook_ # "none" /\ iteration' = iteration /\ Len(launched') >= Len(launched)) =>
       /\ \A r \in DOMAIN marked, v \in Vars :
            (marked'[r][v] > marked[r][v] /\ error' = "none") =>
              grad_at_mark'[r][v].view =
                (IF grad_at_mark'[r][v].kind = "undef" THEN Zero ELSE grad_at_mark'[r][v].val)
       /\ \A j, k \in 1 .. Len(launched') : launched'[j] = launched'[k] => j = k
       /\ \A b \in NewlyLaunched : buckets_'[b + 1].future_work = iteration
       /\ \A b \in 1 .. Len(buckets_') :
            buckets_'[b].work # 0 => b <= Len(buckets_) /\ buckets_'[b].work = buckets_[b].work]_vars

\* C27 witness: a backward pass over two buckets ran from its start to the
\* end of finalize_backward with a hook registered; both reductions were
\* started by runHook and none by allreduce.
C27_Witness ==
  /\ call.op = "none"
  /\ comm_hook_ # "none" /\ iteration = 1 /\ error = "none"
  /\ ~expect_autograd_hooks_ /\ ~require_finalize_
  /\ Len(buckets_) = 2 /\ launched = <<0, 1>>
  /\ \A b \in 1 .. 2 : buckets_[b].work = 0 /\ buckets_[b].future_work = 1
  /\ \A v \in Vars : marked[0][v] = 1 /\ grad_at_mark[0][v].view = grad_at_mark[0][v].val
                     /\ grad_at_mark[0][v].kind = "own"

\* The step starts the all-reduce of the usage maps.
UsageAllreduceIssued == local_used_work_' # local_used_work_

\* The all-reduce of the usage maps is issued when the reductions of all the
\* buckets of the backward pass have been started, and at most once in a
\* pass; without find_unused_parameters it is never issued.
UsageAllreduceOncePerPass ==
  /\ UsageAllreduceIssued =>
       /\ find_unused_parameters_
       /\ local_used_work_' = iteration /\ iteration' = iteration
       /\ next_bucket_' = Len(buckets_') /\ launched' = InOrder(Len(buckets_'))
       /\ enqueued = 0 /\ enqueued' = 1
  /\ (find_unused_parameters_ /\ iteration' >= 1) =>
       /\ enqueued' <= 1
       /\ enqueued' = 1 <=> local_used_work_' = iteration'

\* The step is taken in a backward pass whose all-reduce of the usage maps has
\* been issued, and the pass goes on.
AfterUsageAllreduce ==
  /\ find_unused_parameters_ /\ local_used_work_ = iteration
  /\ expect_autograd_hooks_ /\ expect_autograd_hooks_' /\ iteration' = iteration

\* C28 as stated: with find_unused_parameters the all-reduce of the usage maps
\* of a backward pass is issued once, when the reductions of all the buckets
\* have been started, and no hook of the pass stamps local_used_maps_ after it.
C28_IssuedAfterEveryStamp ==
  [][/\ UsageAllreduceOncePerPass
     /\ AfterUsageAllreduce => local_used_maps_' = local_used_maps_]_vars

\* C28 as the code has it: the all-reduce is issued once, when the reductions
\* of all the buckets have been started, and after the stamp of every hook of
\* the pass that returns without an exception; a hook that fires after it
\* still stamps local_used_maps_, and throws.
C28_IssuedAfterEveryStampOfAHookThatReturns ==
  [][/\ UsageAllreduceOncePerPass
     /\ (AfterUsageAllreduce /\ error' = "none") => local_used_maps_' = local_used_maps_
     /\ (AfterUsageAllreduce /\ fired' # fired) =>
          /\ error' \in {"Expected to mark a variable ready only once.",
                         "Expected to mark a variable ready only once. 3) Incorrect unused parameter detection."}
          /\ \A r \in DOMAIN fired, v \in Vars : fired'[r][v] > fired[r][v] => local_used_maps_'[r][v] = 1]_vars

\* C28 witness: both hooks of a pass over two buckets have fired, both
\* reductions have been started and the all-reduce of the usage maps issued.
C28_Witness ==
  /\ call.op = "none"
  /\ find_unused_parameters_ /\ expect_autograd_hooks_ /\ error = "none"
  /\ iteration = 1 /\ local_used_work_ = 1 /\ enqueued = 1
  /\ launched = <<0, 1>>
  /\ \A v \in Vars : fired[0][v] = 1 /\ local_used_maps_[0][v] = 1

\* C29: with find_unused_parameters, a finalize_backward that returns has
\* waited for local_used_work_ exactly once, and it leaves every entry of
\* local_used_maps_ 0 and local_used_maps_reduced_ false.
C29_UsageWorkAwaitedOnce ==
  [][(RunCallback /\ find_unused_parameters_ /\ error' = "none") =>
       /\ UsedWorkWaits(St) = 1
       /\ local_used_work_ = iteration
       /\ \A r \in DOMAIN local_used_maps_, v \in Vars : local_used_maps_'[r][v] = 0
       /\ ~local_used_maps_reduced_']_vars

\* What a hook that fires outside a backward pass leaves alone: the flags,
\* the launch position, the rebuild record, the usage all-reduce, the queue
\* of callbacks, and what has been marked and launched.
OutsidePassUntouched ==
  <<expect_autograd_hooks_, require_finalize_, next_bucket_, has_marked_unused_parameters_,
    unused_parameters_, variable_locators_, local_used_maps_dev_, local_used_work_,
    local_used_maps_reduced_, has_rebuilt_bucket_, rebuilt_param_indices_, comm_hook_,
    callbacks, enqueued, launched, marked, grad_at_mark, iteration>>

NoPassYet(s) ==
  [s EXCEPT !.expect_autograd_hooks_ = FALSE,
            !.require_finalize_ = FALSE,
            !.next_bucket_ = 0,
            !.has_marked_unused_parameters_ = FALSE,
            !.unused_parameters_ = <<>>,
            !.local_used_maps_ = [r \in Replicas(s) |-> [v \in Vars |-> 0]],
            !.local_used_maps_dev_ = [r \in Replicas(s) |-> [v \in Vars |-> -1]],
            !.local_used_work_ = 0,
            !.local_used_maps_reduced_ = FALSE,
            !.callbacks = 0,
            !.buckets_ = [b \in 1 .. Len(s.buckets_) |->
                            [s.buckets_[b] EXCEPT
                               !.replicas = [k \in 1 .. Len(s.buckets_[b].replicas) |->
                                               [s.buckets_[b].replicas[k] EXCEPT
                                                  !.pending = Len(s.buckets_[b].replicas[k].variables)]],
                               !.pending = Len(s.buckets_[b].replicas),
                               !.work = 0,
                               !.future_work = 0]]]

\* What an iteration yields: the gradients, the launches in their order, and
\* the exception raised, if any.
Yield(s) ==
  [grads |-> [r \in Replicas(s) |-> [v \in Vars |-> GradValue(s, r, v)]],
   defined |-> [r \in Replicas(s) |-> [v \in Vars |-> s.grads[r][v].kind # "undef"]],
   launched |-> s.launched,
   error |-> s.error,
   expect_autograd_hooks_ |-> s.expect_autograd_hooks_,
   require_finalize_ |-> s.require_finalize_,
   callbacks |-> s.callbacks]

\* ------------------------------------------------------------------------
\* Backward passes in a row. Next to the Reducer, call.fresh is the same
\* Reducer started on every pass with the per-iteration state of a Reducer
\* that has run no pass; both are given the same calls.
\* ------------------------------------------------------------------------
Shadow(s) == [s EXCEPT !.call = [op |-> "none"]]

TwiceInit ==
  \E replica_count \in 1 .. MaxReplicas, find_unused_parameters \in BOOLEAN,
     bucket_indices \in Layouts, iface \in {"none", "inplace", "fresh"} :
    LET made == initialize_buckets(
                  Constructed(replica_count, find_unused_parameters, kDefaultFirstBucketBytes),
                  bucket_indices)
        s == IF iface = "none" THEN made ELSE register_comm_hook(made, iface)
    IN /\ ~Failed(s)
       /\ StartsAs([s EXCEPT !.call = [op |-> "twice", fresh |-> Shadow(s)]])

\* prepare_for_backward starts the next pass.
TwicePrepare(unused) ==
  /\ ~expect_autograd_hooks_ /\ callbacks = 0
  /\ iteration * Len(replicas_) < MaxReplicaPasses
  /\ LET graph_unused == UnusedSeq(St, unused, 0, 0)
         s == NoHistory([prepare_for_backward(St, graph_unused) EXCEPT !.iteration = @ + 1])
         f == NoHistory([prepare_for_backward(NoPassYet(St), graph_unused) EXCEPT !.iteration = @ + 1])
     IN Install([s EXCEPT !.call = [op |-> "twice", fresh |-> Shadow(f)]])

\* The hook of a variable of the graph fires, once in a pass.
TwiceHook(r, v, g, peer_used) ==
  /\ expect_autograd_hooks_ /\ ~IsDetour(r, v)
  /\ LET fire(s) == autograd_hook(
                      [AccumulateGrad([s EXCEPT !.peer_used = peer_used], r, v, g)
                         EXCEPT !.fired[r][v] = @ + 1], r, v)
     IN Install([fire(St) EXCEPT !.call = [op |-> "twice", fresh |-> Shadow(fire(call.fresh))]])

\* The engine runs the queued callback.
TwiceCallback ==
  /\ callbacks > 0
  /\ LET f == call.fresh
         g == IF f.callbacks > 0 THEN finalize_backward([f EXCEPT !.callbacks = @ - 1]) ELSE f
     IN Install([finalize_backward([St EXCEPT !.callbacks = @ - 1])
                   EXCEPT !.call = [op |-> "twice", fresh |-> Shadow(g)]])

\* prepare_forward between two passes.
TwiceForward ==
  /\ ~expect_autograd_hooks_ /\ callbacks = 0 /\ iteration > 0
  /\ rebuilt_param_indices_ # <<>>
  /\ LET s == rebuild_buckets(St)
     IN Install([s EXCEPT !.call = [op |-> "twice", fresh |-> Shadow(s)]])

TwiceNext ==
  \/ \E unused \in SUBSET Vars : TwicePrepare(unused)
  \/ \E r \in DOMAIN grads, v \in Vars, peer_used \in PeerUsedInputs(St) :
       \E g \in GradInputs(v) : TwiceHook(r, v, g, peer_used)
  \/ TwiceCallback
  \/ TwiceForward

TwiceSpec == TwiceInit /\ [][TwiceNext]_vars

\* C31: a backward pass (prepare_for_backward, the hooks, finalize_backward)
\* run after another one yields, at every step, the gradients, the launches
\* and the exceptions it yields when it is started with the per-iteration
\* state of a Reducer that has run no pass: nothing the earlier pass left in
\* the pending counters, next_bucket_, the flags, the list of unused
\* parameters, the usage maps or the work handles shows in the later one.
C31_NoResidueAcrossIterations ==
  call.op = "twice" => Yield([St EXCEPT !.error = error]) = Yield(call.fresh)

\* C31 witness: a second pass in a row has ended; it launched both buckets,
\* and the first one had left its work handles and its usage maps behind.
C31_Witness ==
  /\ call.op = "twice"
  /\ iteration = 2 /\ error = "none" /\ find_unused_parameters_
  /\ ~expect_autograd_hooks_ /\ ~require_finalize_ /\ callbacks = 0
  /\ launched = <<0, 1>> /\ AllMarkedOnce
  /\ \A b \in 1 .. 2 : buckets_[b].work = 2 /\ call.fresh.buckets_[b].work = 2

\* C32: mark_bucket_ready is never called for a bucket before next_bucket_
\* (its assertion never fails), and in a backward pass no pending counter of
\* a bucket or of a bucket replica goes below 0, whatever hooks fire, fire
\* again or are pre-marked.
C32_NoUnderflowAndBucketsInTurn ==
  /\ error # "INTERNAL ASSERT bucket_index >= next_bucket_"
  /\ expect_autograd_hooks_ =>
       \A b \in 1 .. Len(buckets_) :
         /\ buckets_[b].pending \in 0 .. Len(buckets_[b].replicas)
         /\ \A k \in 1 .. Len(buckets_[b].replicas) :
              buckets_[b].replicas[k].pending \in 0 .. Len(buckets_[b].replicas[k].variables)

\* C32 witness: of two buckets the second became ready first, so
\* mark_bucket_ready was called out of turn and returned; then the hook of
\* its variable fired again and was refused with the counters at 0.
C32_Witness ==
  /\ call.op = "none"
  /\ expect_autograd_hooks_ /\ Len(buckets_) = 2 /\ next_bucket_ = 0
  /\ buckets_[2].pending = 0 /\ buckets_[2].replicas[1].pending = 0
  /\ fired[0][1] = 2 /\ marked[0][1] = 1
  /\ error = "Expected to mark a variable ready only once. 3) Incorrect unused parameter detection."

\* C33: an initialize_buckets reached while expect_autograd_hooks_ is true
\* fails (a prepare_forward that gets to it through rebuild_buckets in a
\* backward pass, the callback still pending or not), and the call that
\* reached it leaves buckets_, variable_locators_ and has_rebuilt_bucket_ as
\* they were.
C33_RefusedInAPassLeavesBucketsAlone ==
  [][/\ (PrepareForward /\ expect_autograd_hooks_
           /\ Len(rebuilt_param_indices_) = Len(replicas_[1])) =>
          error' = "initialize_buckets must NOT be called during autograd execution."
     /\ error' = "initialize_buckets must NOT be called during autograd execution." =>
          /\ buckets_' = buckets_
          /\ variable_locators_' = variable_locators_
          /\ has_rebuilt_bucket_' = has_rebuilt_bucket_]_vars

\* ------------------------------------------------------------------------
\* RpcContext::set called by the post hooks on two threads of the engine.
\* call holds context_ptr (the atomic raw pointer), context_ptr_holder (the
\* shared pointer that owns the context) and for each thread where it is in
\* set: idle, or past the exchange with the pointer it passed in (new) and
\* the one the exchange returned (old).
\* ------------------------------------------------------------------------
Contexts == {"null", "context A", "context B"}

EngineThreads == {"engine 1", "engine 2"}

OutsideSet == [stage |-> "idle", new |-> "null", old |-> "null"]

\* The constructor's initialize_buckets has stored the context of the thread
\* that built the Reducer.
RpcInit ==
  \E first \in Contexts :
    StartsAs([initialize_buckets(Constructed(1, FALSE, kDefaultFirstBucketBytes), <<<<0, 1>>>>)
                EXCEPT !.call = [op |-> "rpc", context_ptr |-> first, context_ptr_holder |-> first,
                                 pc |-> [t \in EngineThreads |-> OutsideSet]]])

\* "context_ptr.exchange(new_context_raw_ptr)"
SetExchange(t, new_context_ptr) ==
  /\ call.op = "rpc"
  /\ call.pc[t].stage = "idle"
  /\ call' = [call EXCEPT !.context_ptr = new_context_ptr,
                          !.pc[t] = [stage |-> "exchanged", new |-> new_context_ptr,
                                     old |-> call.context_ptr]]
  /\ UNCHANGED reducer_state

\* "if (... != new_context_raw_ptr) context_ptr_holder = std::move(new_context_ptr)"
\* and the return of set.
SetHolder(t) ==
  /\ call.op = "rpc"
  /\ call.pc[t].stage = "exchanged"
  /\ call' = [call EXCEPT !.context_ptr_holder =
                            IF call.pc[t].old # call.pc[t].new THEN call.pc[t].new ELSE @,
                          !.pc[t] = OutsideSet]
  /\ UNCHANGED reducer_state

RpcNext ==
  \/ \E t \in EngineThreads, new_context_ptr \in Contexts : SetExchange(t, new_context_ptr)
  \/ \E t \in EngineThreads : SetHolder(t)

RpcSpec == RpcInit /\ [][RpcNext]_vars

\* C34: the context pointer stored by RpcContext::set is write-once (a set
\* with another context, or with null, does not replace a stored context),
\* and when no thread is inside set the raw pointer and the holder refer to
\* the same context.
C34_ContextIsWriteOnce ==
  [][call.op = "rpc" =>
       /\ call.context_ptr # "null" => call'.context_ptr = call.context_ptr
       /\ (\A t \in EngineThreads : call'.pc[t].stage = "idle") =>
            call'.context_ptr_holder = call'.context_ptr]_vars

\* The grad of variable v of replica r aliases a view of the bucket that
\* variable_locators_ names for v, if v has a slot in a dense bucket.
AliasesItsViews(s, r, v) ==
  LET b == s.variable_locators_[v].bucket_index + 1
  IN (\E i \in 1 .. Len(s.buckets_[b].variable_indices) : s.buckets_[b].variable_indices[i] = v)
       => (s.buckets_[b].expect_sparse_gradient \/ IsAliasOf(s.grads[r][v], b - 1))

\* C35: initialize_bucket_views with copy_to_bucket_view = true preserves the
\* gradients.  At construction, a gradient the parameter came with keeps its
\* value and aliases its bucket view, and an undefined one stays undefined;
\* when rebuild_buckets installs new buckets, every gradient keeps its value,
\* an undefined one stays undefined and a defined one aliases its new view.
C35_ViewsTakeOverTheGradients ==
  /\ \A r \in DOMAIN grads, v \in Vars :
       \/ grads[r][v].kind = "undef"
       \/ /\ GradValue(St, r, v) \in GradInputs(v)
          /\ AliasesItsViews(St, r, v)
  /\ [][(PrepareForward /\ error' = "none" /\ rebuilt_param_indices_ # <<>>) =>
          \A r \in DOMAIN grads, v \in Vars :
            /\ GradValue(St', r, v) = GradValue(St, r, v)
            /\ grads[r][v].kind = "undef" <=> grads'[r][v].kind = "undef"
            /\ grads'[r][v].kind # "undef" => AliasesItsViews(St', r, v)]_vars

\* C35 witness: after a pass whose hooks fired in the order 1, 0,
\* rebuild_buckets has installed buckets in the order 1, 0; the gradients,
\* which aliased the views of the buckets they were reduced in, alias the new
\* views.
C35_Witness ==
  /\ call.op = "none"
  /\ has_rebuilt_bucket_ /\ iteration = 1 /\ error = "none" /\ ~expect_autograd_hooks_
  /\ Flatten(Layout) = <<1, 0>>
  /\ \A v \in Vars : grads[0][v].kind = "view" /\ AliasesItsViews(St, 0, v)
                     /\ ~IsGarbage(GradValue(St, 0, v))

\* Some hook of the pass has not fired yet: ENABLED of the hook steps.
HookEnabled ==
  /\ call.op = "twice" /\ expect_autograd_hooks_
  /\ \E r \in DOMAIN grads, v \in Vars : ~IsDetour(r, v)

\* A callback is queued: ENABLED TwiceCallback.
CallbackEnabled == call.op = "twice" /\ callbacks > 0

\* The passes in a row under the scheduling of the autograd engine: the hook
\* of every variable of the graph fires in the pass, and a queued callback is
\* run.  The two conjuncts are WF_vars of the hook steps and WF_vars of
\* TwiceCallback, with ENABLED written out as the state predicates above.
LiveSpec ==
  /\ TwiceSpec
  /\ \/ []<>(~HookEnabled)
     \/ []<><<\E r \in DOMAIN grads, v \in Vars, peer_used \in PeerUsedInputs(St) :
                \E g \in GradInputs(v) : TwiceHook(r, v, g, peer_used)>>_vars
  /\ \/ []<>(~CallbackEnabled)
     \/ []<><<TwiceCallback>>_vars

\* A backward pass is under way and the graph holds at least one variable, so
\* that a hook fires and the unused parameters are pre-marked.
PassUnderWay ==
  /\ call.op = "twice"
  /\ expect_autograd_hooks_
  /\ Len(unused_parameters_) < Len(replicas_) * NumVars

\* The reduction of every bucket has been started, finalize_backward has run
\* to its end and the two flags are false.
PassEnded ==
  /\ ~expect_autograd_hooks_ /\ ~require_finalize_
  /\ launched = InOrder(Len(buckets_))
  /\ callbacks = 0 /\ error = "none"

\* C36: after prepare_for_backward, when every variable of every replica is
\* marked ready once (by its hook or by the pre-marking of the unused
\* parameters) and the engine runs the queued callback, eventually the
\* reduction of every bucket is started, finalize_backward has run and
\* require_finalize_ and expect_autograd_hooks_ are false again.
C36_PassEventuallyEnds == PassUnderWay ~> PassEnded

\* C36 witness: a pass in which variable 0 was pre-marked as unused and the
\* hook of variable 1 fired has ended.
C36_Witness ==
  /\ call.op = "twice" /\ iteration = 1
  /\ unused_parameters_ = <<<<0, 0>>>> /\ marked[0][0] = 1 /\ fired[0][0] = 0 /\ fired[0][1] = 1
  /\ PassEnded

\* C37: whenever rebuild_buckets gets past its empty check,
\* rebuilt_param_indices_ holds every parameter index of replica 0 exactly
\* once, so the assertion on its size holds.
C37_RebuildRecordIsAPermutation ==
  [][(PrepareForward /\ rebuilt_param_indices_ # <<>>) =>
       /\ Len(rebuilt_param_indices_) = NumVars
       /\ \A v \in Vars : \E k \in 1 .. NumVars : rebuilt_param_indices_[k] = v
       /\ error' # "INTERNAL ASSERT rebuilt parameter indices size is not same as original model parameters size."]_vars

\* The variables of replica 0 readied in this iteration with a defined grad
\* whose value tells a division from a copy.
ReadiedWithGrad ==
  {v \in Vars : /\ 0 \in DOMAIN marked /\ marked[0][v] > 0
                /\ grad_at_mark[0][v].kind # "undef"
                /\ ~IsGarbage(grad_at_mark[0][v].val)
                /\ DivW(grad_at_mark[0][v].val) # grad_at_mark[0][v].val}

\* The handle finalize_backward asserts to be non-null for a bucket.
AwaitedHandle(bucket) == IF comm_hook_ = "none" THEN bucket.work ELSE bucket.future_work

\* C38: however register_comm_hook interleaves with a backward pass,
\* finalize_backward finds for every bucket the handle it asserts to be
\* non-null, that handle was set by the launch of this iteration, and the
\* variables readied in one iteration were either all divided by the world
\* size or all left undivided.
C38_AwaitedAsLaunched ==
  [][/\ RunCallback =>
          /\ error' # "INTERNAL ASSERT Expected bucket.work not to be null."
          /\ error' # "INTERNAL ASSERT Expected bucket.future_work not to be null."
          /\ error' = "none" => \A b \in 1 .. Len(buckets_) : AwaitedHandle(buckets_[b]) = iteration
     /\ \A v, w \in ReadiedWithGrad' :
          (grad_at_mark'[0][v].view = grad_at_mark'[0][v].val)
            <=> (grad_at_mark'[0][w].view = grad_at_mark'[0][w].val)]_vars

\* The number of slots of the buckets that hold parameter index p.
Occurrences(layout, p) == Cardinality({k \in 1 .. Len(Flatten(layout)) : Flatten(layout)[k] = p})

\* C39: after an initialize_buckets call that returns without failing every
\* parameter index of replica 0 is in exactly one slot of exactly one bucket,
\* and bucket_indices in which an index is repeated or missing are rejected.
C39_BucketsPartitionTheParameters ==
  (call.op = "initialize_buckets" /\ call.done) =>
    /\ error = "none" => \A p \in Vars : Occurrences(Layout, p) = 1
    /\ (\E p \in Vars : Occurrences(call.bucket_indices, p) # 1) => error # "none"

\* ------------------------------------------------------------------------
\* max_pool2d_out_impl (Pooling.cpp) run on its own. A scalar is a record: k
\* tells a NaN, the negative infinity and a finite value apart and n orders
\* the scalars that are no NaN. call holds the arguments, the input IP as the
\* flat array the code indexes, the output rows written so far (OP[it] is
\* the row at OP + it * OW, <<>> while unwritten) and the input positions
\* read, as <<plane, row, column>>.
\* ------------------------------------------------------------------------
MaxSide == 2

MaxPlanes == 2

\* std::numeric_limits<scalar_t>::lowest(): the least finite value.
FILL == [k |-> "finite", n |-> -1]

NegInfinity == [k |-> "-inf", n |-> -2]

NaN == [k |-> "nan", n |-> 0]

\* The scalars of an input: the negative infinity, a finite value and a NaN.
Scalars == {NegInfinity, [k |-> "finite", n |-> 1], NaN}

isnan(val) == val.k = "nan"

\* std::max(a, b) is (a < b) ? b : a, and a < b is false when an operand is
\* a NaN.
std_max(a, b) == IF a.k # "nan" /\ b.k # "nan" /\ a.n < b.n THEN b ELSE a

\* ip[ij] with ip = IP + ((it / OH) * IH + ii) * IW; a read outside the array
\* yields no value of the input.
Load(p, it, ii, ij) ==
  LET at == ((it \div p.OH) * p.IH + ii) * p.IW + ij
  IN IF at + 1 \in DOMAIN p.IP THEN p.IP[at + 1] ELSE [k |-> "garbage", n |-> 0]

\* The loop over ki: the rows of the window that are in range are folded into
\* buffer.
RECURSIVE RowsLoop(_, _, _, _)
RowsLoop(p, it, ki, acc) ==
  IF ~(ki < p.KH) THEN acc
  ELSE LET ii == (it % p.OH) * p.SI - p.PI + ki * p.DI
       IN RowsLoop(p, it, ki + 1,
            IF ii >= 0 /\ ii < p.IH
              THEN [buffer |-> [ij \in 0 .. p.IW - 1 |->
                                  LET val == Load(p, it, ii, ij)
                                  IN IF isnan(val) THEN val ELSE std_max(acc.buffer[ij], val)],
                    reads |-> acc.reads \cup {<<it \div p.OH, ii, ij>> : ij \in 0 .. p.IW - 1}]
              ELSE acc)

\* The loop over kj for the output column oj.
RECURSIVE ColsLoop(_, _, _, _, _)
ColsLoop(p, buffer, oj, kj, max_val) ==
  IF ~(kj < p.KW) THEN max_val
  ELSE LET ij == oj * p.SJ - p.PJ + kj * p.DJ
       IN ColsLoop(p, buffer, oj, kj + 1,
            IF ij >= 0 /\ ij < p.IW
              THEN LET val == buffer[ij]
                   IN IF isnan(val) THEN val ELSE std_max(max_val, val)
              ELSE max_val)

\* The body of the loop over it of max_pool2d_out_impl: one output row.
OutputRow(p, it) ==
  LET acc == RowsLoop(p, it, 0, [buffer |-> [ij \in 0 .. p.IW - 1 |-> FILL], reads |-> {}])
  IN [row |-> [oj \in 1 .. p.OW |-> ColsLoop(p, acc.buffer, oj - 1, 0, FILL)],
      reads |-> acc.reads]

\* A scalar that differs from x, used to make the planes of an input differ.
Mirror(x) ==
  IF x.k = "-inf" THEN [k |-> "finite", n |-> 1]
  ELSE IF x.k = "nan" THEN NegInfinity
  ELSE NaN

RECURSIVE MirrorTimes(_, _)
MirrorTimes(x, c) == IF c = 0 THEN x ELSE MirrorTimes(Mirror(x), c - 1)

\* max_pool2d_out_impl is called on an input of NB * NC planes of IH x IW
\* scalars (plane c is plane 0 mirrored c times) for an output of OH x OW.
PoolInit ==
  \E NC \in 1 .. MaxPlanes, IH, IW, OH, OW, KH, KW, SI, SJ, DI, DJ \in 1 .. MaxSide,
     PI, PJ \in 0 .. MaxSide - 1 :
    \E plane \in [0 .. IH * IW - 1 -> Scalars] :
      StartsAs([Constructed(1, FALSE, kDefaultFirstBucketBytes) EXCEPT
                  !.call = [op |-> "max_pool2d", NB |-> 1, NC |-> NC, IH |-> IH, IW |-> IW,
                            OH |-> OH, OW |-> OW, KH |-> KH, KW |-> KW, SI |-> SI, SJ |-> SJ,
                            PI |-> PI, PJ |-> PJ, DI |-> DI, DJ |-> DJ,
                            IP |-> [at \in 1 .. NC * IH * IW |->
                                      MirrorTimes(plane[(at - 1) % (IH * IW)], (at - 1) \div (IH * IW))],
                            OP |-> [it \in 0 .. NC * OH - 1 |-> <<>>],
                            reads |-> {}]])

\* at::parallel_for runs the iterations of the loop over it in any order.
MaxPoolRow(it) ==
  /\ call.op = "max_pool2d"
  /\ it \in DOMAIN call.OP /\ call.OP[it] = <<>>
  /\ LET out == OutputRow(call, it)
     IN call' = [call EXCEPT !.OP[it] = out.row, !.reads = @ \cup out.reads]
  /\ UNCHANGED reducer_state

PoolNext == \E it \in 0 .. MaxPlanes * MaxSide - 1 : MaxPoolRow(it)

PoolSpec == PoolInit /\ [][PoolNext]_vars

\* The scalars of the input in range in the window of the output cell
\* (oi, oj) of plane c.
WindowScalars(p, c, oi, oj) ==
  {p.IP[(c * p.IH + ii) * p.IW + ij + 1] :
     <<ii, ij>> \in {w \in (0 .. p.IH - 1) \X (0 .. p.IW - 1) :
                       /\ \E ki \in 0 .. p.KH - 1 : w[1] = oi * p.SI - p.PI + ki * p.DI
                       /\ \E kj \in 0 .. p.KW - 1 : w[2] = oj * p.SJ - p.PJ + kj * p.DJ}}

\* The maximum of a set of scalars: a NaN if one is in it, else its greatest
\* element; FILL for the empty set.
MaximumOf(S) ==
  IF S = {} THEN FILL
  ELSE IF NaN \in S THEN NaN
  ELSE CHOOSE x \in S : \A y \in S : y.n <= x.n

\* C40: every output cell max_pool2d_out_impl has written holds the maximum
\* of the input scalars in range in the cell's window, FILL when none is in
\* range, and every input position read is within [0, IH) x [0, IW) of a
\* plane of the input.
C40_TwoPassesGiveTheWindowMaximum ==
  call.op = "max_pool2d" =>
    /\ \A it \in DOMAIN call.OP :
         call.OP[it] # <<>> =>
           \A oj \in 1 .. call.OW :
             call.OP[it][oj] =
               MaximumOf(WindowScalars(call, it \div call.OH, it % call.OH, oj - 1))
    /\ \A at \in call.reads :
         /\ at[1] \in 0 .. call.NB * call.NC - 1
         /\ at[2] \in 0 .. call.IH - 1
         /\ at[3] \in 0 .. call.IW - 1

====
